---- MODULE Spec2Model ----
(***************************************************************************)
(* Model of the detections-consensus block                                 *)
(*   src/inference/enterprise/workflows/core_steps/fusion/                 *)
(*       detections_consensus.py                                          *)
(* (the dict-based implementation; the file under src/inference/core is a  *)
(* port of the same design onto an array container).                       *)
(*                                                                         *)
(* Conventions.                                                            *)
(*  - Python lists are TLA+ sequences, so every index is the Python index  *)
(*    plus one (source 1 is predictions[0], batch index 1 is element 0).   *)
(*  - A confidence, an IoU or a threshold is a rational <<n, d>> in lowest *)
(*    terms with d > 0. A confidence is a binary fraction (<<1,4>>,        *)
(*    <<5,8>>, ...), which a Python float holds exactly, and the inputs    *)
(*    are chosen so that every mean of them is one too: StatisticsMean is  *)
(*    defined on those lists only, where statistics.mean does not round.   *)
(*    An IoU or an iou_threshold <<n, d>> stands for the float nearest to  *)
(*    n/d (the quotient intersection / union, the literal 0.3); floats of  *)
(*    rationals with small denominators compare as the rationals do.       *)
(*  - A raw detection_id is <<source, batch index, detection index>>; a    *)
(*    uuid4() of merge_detections is <<0, 0, n>>, n counting the calls.    *)
(*  - lineage, attempt are history variables: they record which raw        *)
(*    detections a merged detection was built from and what the last       *)
(*    grouping attempt did. No action reads them.                          *)
(***************************************************************************)
EXTENDS Integers, Sequences, FiniteSets, TLC

VARIABLES
    predictions,                    \* run_locally argument: source -> batch -> detections
    image_metadata,                 \* run_locally argument
    config,                         \* the remaining run_locally arguments
    pc,                             \* position in run_locally
    batch_index,                    \* loop variable of run_locally
    results,                        \* local list of run_locally
    parent_id,                      \* locals of resolve_batch_consensus ...
    element_predictions,            \*   predictions after filter_predictions
    detections_already_considered,
    consensus_detections,
    cursor,                         \*   position of the enumerate_detections generator
    returned,                       \* value handed to the caller (pc = "returned")
    error,                          \* exception raised to the caller (pc = "raised")
    uuid_counter,                   \* number of uuid4() calls so far
    lineage,                        \* history: merged detection_id -> detections_to_merge
    attempt                         \* history: the last call of get_consensus_for_single_detection

vars == <<predictions, image_metadata, config, pc, batch_index, results, parent_id,
          element_predictions, detections_already_considered, consensus_detections,
          cursor, returned, error, uuid_counter, lineage, attempt>>

-----------------------------------------------------------------------------
(* Bounds of the model *)

MaxSources == 2

MaxBatch == 2

MaxDetections == 3

-----------------------------------------------------------------------------
(* Generic helpers *)

Range(f) == {f[i] : i \in DOMAIN f}

SeqsUpTo(S, n) == UNION {[1..k -> S] : k \in 0..n}

Max2(a, b) == IF a >= b THEN a ELSE b

Min2(a, b) == IF a <= b THEN a ELSE b

RECURSIVE SumSeq(_)
SumSeq(s) == IF s = <<>> THEN 0 ELSE Head(s) + SumSeq(Tail(s))

RECURSIVE GCD(_, _)
GCD(a, b) == IF b = 0 THEN a ELSE GCD(b, a % b)

(* rationals n/d, d > 0, in lowest terms; n >= 0 throughout *)
Rat(n, d) == LET g == GCD(n, d) IN <<n \div g, d \div g>>

RatLess(a, b) == a[1] * b[2] < b[1] * a[2]

RatLeq(a, b) == a[1] * b[2] <= b[1] * a[2]

RatAdd(a, b) == Rat(a[1] * b[2] + b[1] * a[2], a[2] * b[2])

RECURSIVE RatSum(_)
RatSum(s) == IF s = <<>> THEN <<0, 1>> ELSE RatAdd(Head(s), RatSum(Tail(s)))

(* Python's max(values) / min(values): the first extreme value of the list *)
RECURSIVE PyMax(_)
PyMax(s) ==
    IF Len(s) = 1 THEN s[1]
    ELSE LET m == PyMax(SubSeq(s, 1, Len(s) - 1))
         IN  IF RatLess(m, s[Len(s)]) THEN s[Len(s)] ELSE m

RECURSIVE PyMin(_)
PyMin(s) ==
    IF Len(s) = 1 THEN s[1]
    ELSE LET m == PyMin(SubSeq(s, 1, Len(s) - 1))
         IN  IF RatLess(s[Len(s)], m) THEN s[Len(s)] ELSE m

RECURSIVE IsPowerOfTwo(_)
IsPowerOfTwo(d) == d = 1 \/ (d % 2 = 0 /\ IsPowerOfTwo(d \div 2))

(* a rational that a Python float holds exactly (the numerators of the model are
   far below 2^53) *)
IsBinaryFraction(r) == IsPowerOfTwo(r[2])

(* statistics.mean(values) for floats: the exact mean of the values, rounded to the
   nearest float. It is defined here where that rounding changes nothing: every value
   is a binary fraction and so is their mean *)
StatisticsMean(s) ==
    LET t == RatSum(s)
        exact == Rat(t[1], t[2] * Len(s))
    IN  CHOOSE mean \in {exact} :
            /\ \A i \in 1..Len(s) : IsBinaryFraction(s[i])
            /\ IsBinaryFraction(mean)

(* Python's round(n/d) for n >= 0: to nearest, a tie to the even integer *)
PyRound(n, d) ==
    LET q == n \div d
        r == n % d
    IN  IF 2 * r < d THEN q
        ELSE IF 2 * r > d THEN q + 1
        ELSE IF q % 2 = 0 THEN q ELSE q + 1

(* the first index of s whose element satisfies Test *)
FirstIndex(s, Test(_)) == CHOOSE i \in 1..Len(s) :
                              Test(s[i]) /\ \A j \in 1..(i - 1) : ~Test(s[j])

-----------------------------------------------------------------------------
(* class AggregationMode *)

AVERAGE == "average"

MAX == "max"

MIN == "min"

AggregationMode == {AVERAGE, MAX, MIN}

(* AGGREGATION_MODE2FIELD_AGGREGATOR[mode](values) *)
AGGREGATION_MODE2FIELD_AGGREGATOR(mode, values) ==
    CASE mode = MAX -> PyMax(values)
      [] mode = MIN -> PyMin(values)
      [] mode = AVERAGE -> StatisticsMean(values)

(* aggregate_field_values on the field "confidence" *)
aggregate_field_values(detections, aggregation_mode) ==
    AGGREGATION_MODE2FIELD_AGGREGATOR(
        aggregation_mode, [i \in 1..Len(detections) |-> detections[i].confidence])

(* aggregate_field_values on an integer field (x, y, width, height), mode AVERAGE,
   as the pair <<sum, count>> that round() is then applied to *)
aggregate_coordinate(detections, field) ==
    <<SumSeq([i \in 1..Len(detections) |-> detections[i][field]]), Len(detections)>>

-----------------------------------------------------------------------------
(* Geometry *)

(* detection_to_xyxy (core_steps/common/utils.py, not among the sources): the
   corners of the box whose centre is (x, y); widths and heights of the model's
   detections are even, so the halves are exact *)
detection_to_xyxy(detection) ==
    <<detection.x - detection.width \div 2,
      detection.y - detection.height \div 2,
      detection.x - detection.width \div 2 + detection.width,
      detection.y - detection.height \div 2 + detection.height>>

get_detection_sizes(detections) ==
    [i \in 1..Len(detections) |-> detections[i].height * detections[i].width]

(* Mutation of lines 348-349: an empty union counts as a full overlap *)
calculate_iou_empty_union_is_one(detection_a, detection_b) ==
    LET box_a == detection_to_xyxy(detection_a)
        box_b == detection_to_xyxy(detection_b)
        x_a == Max2(box_a[1], box_b[1])
        y_a == Max2(box_a[2], box_b[2])
        x_b == Min2(box_a[3], box_b[3])
        y_b == Min2(box_a[4], box_b[4])
        intersection == Max2(0, x_b - x_a) * Max2(0, y_b - y_a)
        sizes == get_detection_sizes(<<detection_a, detection_b>>)
        union == sizes[1] + sizes[2] - intersection
    IN  IF union = 0 THEN <<1, 1>> ELSE Rat(intersection, union)

calculate_iou(detection_a, detection_b) ==
    LET box_a == detection_to_xyxy(detection_a)
        box_b == detection_to_xyxy(detection_b)
        x_a == Max2(box_a[1], box_b[1])
        y_a == Max2(box_a[2], box_b[2])
        x_b == Min2(box_a[3], box_b[3])
        y_b == Min2(box_a[4], box_b[4])
        intersection == Max2(0, x_b - x_a) * Max2(0, y_b - y_a)
        sizes == get_detection_sizes(<<detection_a, detection_b>>)
        union == sizes[1] + sizes[2] - intersection
    IN  IF union = 0 THEN <<0, 1>> ELSE Rat(intersection, union)

-----------------------------------------------------------------------------
(* Validation and filtering *)

get_predictions_batch_sizes(all_predictions) ==
    [s \in 1..Len(all_predictions) |-> Len(all_predictions[s])]

(* Mutation of lines 353-357: later sources may hold more elements than the first *)
all_batch_sizes_equal_at_least(batch_sizes) ==
    IF Len(batch_sizes) = 0 THEN TRUE
    ELSE \A i \in 1..Len(batch_sizes) : batch_sizes[i] >= batch_sizes[1]

all_batch_sizes_equal(batch_sizes) ==
    IF Len(batch_sizes) = 0 THEN TRUE
    ELSE \A i \in 1..Len(batch_sizes) : batch_sizes[i] = batch_sizes[1]

(* Mutation of lines 258-259: only an empty list of sources counts as "nothing detected" *)
does_not_detected_objects_in_no_source(preds) == Len(preds) = 0

does_not_detected_objects_in_any_source(preds) ==
    \A s \in 1..Len(preds) : Len(preds[s]) = 0

(* Mutation of lines 265-267: only the first source's parent identifiers are collected *)
encountered_parent_ids_first_source(preds) ==
    {preds[1][k].parent_id : k \in 1..Len(preds[1])}

(* the set comprehension of get_parent_id_of_predictions_from_different_sources *)
encountered_parent_ids(preds) ==
    UNION {{preds[s][k].parent_id : k \in 1..Len(preds[s])} : s \in 1..Len(preds)}

(* Mutation of line 268: two parent identifiers are tolerated *)
parent_ids_mismatch_lenient(preds) == Cardinality(encountered_parent_ids(preds)) > 2

(* the test of line 268 that raises ExecutionGraphError *)
parent_ids_mismatch(preds) == Cardinality(encountered_parent_ids(preds)) > 1

(* list(encountered_parent_ids)[0], reached with exactly one member *)
get_parent_id_of_predictions_from_different_sources(preds) ==
    CHOOSE p \in encountered_parent_ids(preds) : TRUE

(* classes_to_consider is AllClasses (None) or ClassList(l), l a sequence of names *)
AllClasses == [type |-> "NoneType"]

ClassList(l) == [type |-> "list", value |-> l]

(* Mutation of line 290: the test is inverted, the listed classes are dropped *)
filter_predictions_drops_listed(preds, classes_to_consider) ==
    IF classes_to_consider.type = "NoneType" THEN preds
    ELSE [s \in 1..Len(preds) |->
             SelectSeq(preds[s],
                       LAMBDA detection : detection.class \notin Range(classes_to_consider.value))]

(* Mutation of lines 278-292: the class filter keeps every detection *)
filter_predictions_keeps_all(preds, classes_to_consider) == preds

filter_predictions(preds, classes_to_consider) ==
    IF classes_to_consider.type = "NoneType" THEN preds
    ELSE [s \in 1..Len(preds) |->
             SelectSeq(preds[s],
                       LAMBDA detection : detection.class \in Range(classes_to_consider.value))]

-----------------------------------------------------------------------------
(* Matching *)

(* enumerate_detections: the pairs <<source_id, detection>> the generator yields,
   in order; excluded_source = 0 stands for None *)
RECURSIVE enumerate_from(_, _, _)
enumerate_from(preds, source_id, excluded_source) ==
    IF source_id > Len(preds) THEN <<>>
    ELSE (IF excluded_source = source_id THEN <<>>
          ELSE [k \in 1..Len(preds[source_id]) |-> <<source_id, preds[source_id][k]>>])
         \o enumerate_from(preds, source_id + 1, excluded_source)

(* Mutation of lines 329-333: the detections are yielded from the last to the first *)
enumerate_detections_backwards(preds, excluded_source) ==
    LET forwards == enumerate_from(preds, 1, excluded_source)
    IN  [i \in 1..Len(forwards) |-> forwards[Len(forwards) + 1 - i]]

(* Mutation of lines 330-331: the excluded source is enumerated like the others *)
enumerate_detections_all_sources(preds, excluded_source) == enumerate_from(preds, 1, 0)

enumerate_detections(preds, excluded_source) == enumerate_from(preds, 1, excluded_source)

(* Mutation of lines 310-311: candidates of another class are not skipped *)
max_overlap_update_class_blind(current_max_overlap, detection, other_source, other_detection, iou_threshold, class_aware, considered) ==
    LET iou_value == calculate_iou(detection, other_detection)
    IN  IF other_detection.detection_id \in considered THEN current_max_overlap
        ELSE IF RatLeq(iou_value, iou_threshold) THEN current_max_overlap
        ELSE IF other_source \notin DOMAIN current_max_overlap
             THEN current_max_overlap @@ (other_source :> <<other_detection, iou_value>>)
        ELSE IF RatLess(current_max_overlap[other_source][2], iou_value)
             THEN [current_max_overlap EXCEPT ![other_source] = <<other_detection, iou_value>>]
        ELSE current_max_overlap

(* Mutation of line 320: a later candidate of equal IoU replaces the kept one *)
max_overlap_update_last_tie(current_max_overlap, detection, other_source, other_detection, iou_threshold, class_aware, considered) ==
    LET iou_value == calculate_iou(detection, other_detection)
    IN  IF other_detection.detection_id \in considered THEN current_max_overlap
        ELSE IF class_aware /\ detection.class # other_detection.class THEN current_max_overlap
        ELSE IF RatLeq(iou_value, iou_threshold) THEN current_max_overlap
        ELSE IF other_source \notin DOMAIN current_max_overlap
             THEN current_max_overlap @@ (other_source :> <<other_detection, iou_value>>)
        ELSE IF RatLeq(current_max_overlap[other_source][2], iou_value)
             THEN [current_max_overlap EXCEPT ![other_source] = <<other_detection, iou_value>>]
        ELSE current_max_overlap

(* one iteration of the loop of get_detections_from_different_sources_with_max_overlap:
   current_max_overlap is a function other_source -> <<other_detection, iou_value>> *)
max_overlap_update(current_max_overlap, detection, other_source, other_detection, iou_threshold, class_aware, considered) ==
    LET iou_value == calculate_iou(detection, other_detection)
    IN  IF other_detection.detection_id \in considered THEN current_max_overlap
        ELSE IF class_aware /\ detection.class # other_detection.class THEN current_max_overlap
        ELSE IF RatLeq(iou_value, iou_threshold) THEN current_max_overlap
        ELSE IF other_source \notin DOMAIN current_max_overlap
             THEN current_max_overlap @@ (other_source :> <<other_detection, iou_value>>)
        ELSE IF RatLess(current_max_overlap[other_source][2], iou_value)
             THEN [current_max_overlap EXCEPT ![other_source] = <<other_detection, iou_value>>]
        ELSE current_max_overlap

RECURSIVE max_overlap_scan(_, _, _, _, _, _)
max_overlap_scan(others, n, detection, iou_threshold, class_aware, considered) ==
    IF n = 0 THEN <<>>
    ELSE max_overlap_update(
             max_overlap_scan(others, n - 1, detection, iou_threshold, class_aware, considered),
             detection, others[n][1], others[n][2], iou_threshold, class_aware, considered)

get_detections_from_different_sources_with_max_overlap(detection, source, preds, iou_threshold, class_aware, considered) ==
    LET others == enumerate_detections(preds, source)
    IN  max_overlap_scan(others, Len(others), detection, iou_threshold, class_aware, considered)

(* dict.values() of the matches: keys were inserted in ascending source order *)
RECURSIVE dict_values(_)
dict_values(d) ==
    IF DOMAIN d = {} THEN <<>>
    ELSE LET k == CHOOSE k \in DOMAIN d : \A j \in DOMAIN d : k <= j
         IN  <<d[k]>> \o dict_values([j \in DOMAIN d \ {k} |-> d[j]])

-----------------------------------------------------------------------------
(* Merging *)

(* Mutation of line 533: among the classes of the highest count the last encountered
   is returned *)
most_common_class_last_encountered(detections) ==
    LET count(c) == Cardinality({i \in 1..Len(detections) : detections[i].class = c})
        top == CHOOSE i \in 1..Len(detections) :
                   /\ \A j \in 1..Len(detections) :
                          count(detections[j].class) <= count(detections[i].class)
                   /\ \A j \in (i + 1)..Len(detections) :
                          count(detections[j].class) < count(detections[i].class)
    IN  detections[top].class

(* Counter(d["class"] for d in detections).most_common(1)[0][0]: the class with the
   highest count, the first encountered among equals *)
most_common_class(detections) ==
    LET count(c) == Cardinality({i \in 1..Len(detections) : detections[i].class = c})
        top == FirstIndex(detections,
                   LAMBDA d : \A j \in 1..Len(detections) :
                                  count(detections[j].class) <= count(d.class))
    IN  detections[top].class

get_majority_class(detections) ==
    LET most_common_class_name == most_common_class(detections)
        first == FirstIndex(detections, LAMBDA d : d.class = most_common_class_name)
    IN  <<most_common_class_name, detections[first].class_id>>

get_class_of_most_confident_detection(detections) ==
    LET max_confidence == aggregate_field_values(detections, MAX)
        first == FirstIndex(detections, LAMBDA d : d.confidence = max_confidence)
    IN  <<detections[first].class, detections[first].class_id>>

get_class_of_least_confident_detection(detections) ==
    LET min_confidence == aggregate_field_values(detections, MIN)
        first == FirstIndex(detections, LAMBDA d : d.confidence = min_confidence)
    IN  <<detections[first].class, detections[first].class_id>>

AGGREGATION_MODE2CLASS_SELECTOR(mode, detections) ==
    CASE mode = MAX -> get_class_of_most_confident_detection(detections)
      [] mode = MIN -> get_class_of_least_confident_detection(detections)
      [] mode = AVERAGE -> get_majority_class(detections)

get_average_bounding_box(detections) ==
    LET x == aggregate_coordinate(detections, "x")
        y == aggregate_coordinate(detections, "y")
        width == aggregate_coordinate(detections, "width")
        height == aggregate_coordinate(detections, "height")
    IN  <<PyRound(x[1], x[2]), PyRound(y[1], y[2]),
          PyRound(width[1], width[2]), PyRound(height[1], height[2])>>

get_smallest_bounding_box(detections) ==
    LET detection_sizes == get_detection_sizes(detections)
        idx == CHOOSE i \in 1..Len(detections) :
                   /\ \A j \in 1..Len(detections) : detection_sizes[i] <= detection_sizes[j]
                   /\ \A j \in 1..(i - 1) : detection_sizes[j] # detection_sizes[i]
        matching_detection == detections[idx]
    IN  <<matching_detection.x, matching_detection.y,
          matching_detection.width, matching_detection.height>>

(* Mutation of lines 594-606: each coordinate is the largest of that coordinate *)
get_largest_bounding_box_per_coordinate(detections) ==
    LET largest(field) == CHOOSE v \in {detections[i][field] : i \in 1..Len(detections)} :
                              \A j \in 1..Len(detections) : detections[j][field] <= v
    IN  <<largest("x"), largest("y"), largest("width"), largest("height")>>

get_largest_bounding_box(detections) ==
    LET detection_sizes == get_detection_sizes(detections)
        idx == CHOOSE i \in 1..Len(detections) :
                   /\ \A j \in 1..Len(detections) : detection_sizes[i] >= detection_sizes[j]
                   /\ \A j \in 1..(i - 1) : detection_sizes[j] # detection_sizes[i]
        matching_detection == detections[idx]
    IN  <<matching_detection.x, matching_detection.y,
          matching_detection.width, matching_detection.height>>

AGGREGATION_MODE2BOXES_AGGREGATOR(mode, detections) ==
    CASE mode = MAX -> get_largest_bounding_box(detections)
      [] mode = MIN -> get_smallest_bounding_box(detections)
      [] mode = AVERAGE -> get_average_bounding_box(detections)

(* merge_detections; uuid is the value uuid4() returns *)
(* Mutation of line 516: class_id is read off the fresh identifier *)
merge_detections_class_id_of_uuid(detections, confidence_aggregation_mode, boxes_aggregation_mode, uuid) ==
    LET selected == AGGREGATION_MODE2CLASS_SELECTOR(confidence_aggregation_mode, detections)
        box == AGGREGATION_MODE2BOXES_AGGREGATOR(boxes_aggregation_mode, detections)
    IN  [parent_id |-> detections[1].parent_id,
         detection_id |-> uuid,
         class |-> selected[1],
         class_id |-> uuid[1],
         confidence |-> aggregate_field_values(detections, confidence_aggregation_mode),
         x |-> box[1],
         y |-> box[2],
         width |-> box[3],
         height |-> box[4]]

merge_detections(detections, confidence_aggregation_mode, boxes_aggregation_mode, uuid) ==
    LET selected == AGGREGATION_MODE2CLASS_SELECTOR(confidence_aggregation_mode, detections)
        box == AGGREGATION_MODE2BOXES_AGGREGATOR(boxes_aggregation_mode, detections)
    IN  [parent_id |-> detections[1].parent_id,
         detection_id |-> uuid,
         class |-> selected[1],
         class_id |-> selected[2],
         confidence |-> aggregate_field_values(detections, confidence_aggregation_mode),
         x |-> box[1],
         y |-> box[2],
         width |-> box[3],
         height |-> box[4]]

-----------------------------------------------------------------------------
(* get_consensus_for_single_detection *)

(* Mutation of line 442: the seed's own vote is counted twice *)
lacks_votes_off_by_one(detections_with_max_overlap, required_votes) ==
    Cardinality(DOMAIN detections_with_max_overlap) < required_votes - 2

(* Mutation of line 442: as many matches as required_votes - 1 do not suffice *)
lacks_votes_inclusive(detections_with_max_overlap, required_votes) ==
    Cardinality(DOMAIN detections_with_max_overlap) <= required_votes - 1

(* line 442 *)
lacks_votes(detections_with_max_overlap, required_votes) ==
    Cardinality(DOMAIN detections_with_max_overlap) < required_votes - 1

(* Mutation of line 452: a merged confidence equal to the threshold is rejected *)
below_confidence_inclusive(merged_detection, confidence) ==
    RatLeq(merged_detection.confidence, confidence)

(* line 452 *)
below_confidence(merged_detection, confidence) ==
    RatLess(merged_detection.confidence, confidence)

(* Mutation of lines 455-457: an accepted group is not marked at all *)
mark_considered_nothing(considered, detection, matched) == considered

(* Mutation of lines 455-457: the matches are marked, the seed is not *)
mark_considered_matches_only(considered, detection, matched) ==
    considered \cup {matched[i].detection_id : i \in 1..Len(matched)}

(* Mutation of lines 455-457: only the seed is marked, its matches are not *)
mark_considered_seed_only(considered, detection, matched) ==
    considered \cup {detection.detection_id}

(* lines 455-457 *)
mark_considered(considered, detection, matched) ==
    considered \cup {detection.detection_id}
               \cup {matched[i].detection_id : i \in 1..Len(matched)}

(* Mutation of line 443: the seed that lacks votes is marked as considered *)
considered_without_votes_seed_marked(considered, detection, matched) ==
    considered \cup {detection.detection_id}

(* line 443: the set returned when the seed lacks votes *)
considered_without_votes(considered, detection, matched) == considered

(* Mutation of line 453: the rejected group is marked as considered *)
considered_after_rejection_marked(considered, detection, matched) ==
    mark_considered(considered, detection, matched)

(* line 453: the set returned when the merged confidence is below the threshold *)
considered_after_rejection(considered, detection, matched) == considered

(* The result is the returned pair (consensus_detections, detections_already_considered);
   outcome and detections_to_merge are what the history variables record:
   which return statement was taken, and the group that was merged. *)
get_consensus_for_single_detection(detection, source_id, preds, iou_threshold, class_aware, required_votes, confidence, detections_merge_confidence_aggregation, detections_merge_coordinates_aggregation, considered, uuid) ==
    LET detections_with_max_overlap ==
            get_detections_from_different_sources_with_max_overlap(
                detection, source_id, preds, iou_threshold, class_aware, considered)
        matched == [i \in 1..Cardinality(DOMAIN detections_with_max_overlap) |->
                       dict_values(detections_with_max_overlap)[i][1]]
        detections_to_merge == <<detection>> \o matched
        merged_detection ==
            merge_detections(detections_to_merge, detections_merge_confidence_aggregation,
                             detections_merge_coordinates_aggregation, uuid)
    IN  IF detection.detection_id \in considered
        THEN [consensus_detections |-> <<>>,
              detections_already_considered |-> considered,
              outcome |-> "already_considered",
              detections_to_merge |-> <<>>]
        ELSE IF lacks_votes(detections_with_max_overlap, required_votes)
        THEN [consensus_detections |-> <<>>,
              detections_already_considered |->
                  considered_without_votes(considered, detection, matched),
              outcome |-> "lacks_votes",
              detections_to_merge |-> detections_to_merge]
        ELSE IF below_confidence(merged_detection, confidence)
        THEN [consensus_detections |-> <<>>,
              detections_already_considered |->
                  considered_after_rejection(considered, detection, matched),
              outcome |-> "below_confidence",
              detections_to_merge |-> detections_to_merge]
        ELSE [consensus_detections |-> <<merged_detection>>,
              detections_already_considered |-> mark_considered(considered, detection, matched),
              outcome |-> "accepted",
              detections_to_merge |-> detections_to_merge]

-----------------------------------------------------------------------------
(* Presence *)

(* required_objects is [type |-> "NoneType"], [type |-> "int", value |-> n] or
   [type |-> "dict", value |-> f] with f a function class name -> count.
   The result is the returned pair plus raises: aggregating an empty list
   (max([]), min([]), statistics.mean([])) raises instead of returning. *)
EmptyDict == <<>>

(* Mutation of line 472: one value of the mapping stands for their sum *)
sum_values_first_only(f) == f[CHOOSE k \in DOMAIN f : TRUE]

(* sum(required_objects.values()) *)
RECURSIVE sum_values(_)
sum_values(f) ==
    IF DOMAIN f = {} THEN 0
    ELSE LET k == CHOOSE k \in DOMAIN f : TRUE
         IN  f[k] + sum_values([j \in DOMAIN f \ {k} |-> f[j]])

(* Mutation of lines 486-487: every merged detection is filed under every class *)
detections_of_any_class(detections, class_name) == detections

(* class2detections[class_name], lines 485-487 *)
detections_of_class(detections, class_name) ==
    SelectSeq(detections, LAMBDA d : d.class = class_name)

(* Mutation of line 467: an empty list of merged detections is evaluated like any other *)
no_consensus_detections_ignored(detections) == FALSE

(* line 467 *)
no_consensus_detections(detections) == Len(detections) = 0

(* Mutation of lines 492-499: each class is given the aggregate over all merged
   detections *)
class2confidence_over_all(detections, aggregation_mode) ==
    [c \in {detections[i].class : i \in 1..Len(detections)} |->
        aggregate_field_values(detections, aggregation_mode)]

(* lines 492-499, when every key of class2detections holds a merged detection *)
class2confidence(detections, aggregation_mode) ==
    [c \in {detections[i].class : i \in 1..Len(detections)} |->
        aggregate_field_values(detections_of_class(detections, c), aggregation_mode)]

check_objects_presence_in_consensus_predictions(detections, class_aware, aggregation_mode, required_objects) ==
    LET absent == [object_present |-> FALSE, presence_confidence |-> EmptyDict,
                   raises |-> FALSE]
        \* max([]), min([]) and statistics.mean([]) raise
        raising == [object_present |-> FALSE, presence_confidence |-> EmptyDict,
                    raises |-> TRUE]
        is_dict == required_objects.type = "dict"
        \* lines 469-472: None becomes 0, a dict is summed on the non-class-aware path
        required_count ==
            IF required_objects.type = "NoneType" THEN 0
            ELSE IF is_dict THEN sum_values(required_objects.value)
            ELSE required_objects.value
        count_is_int == ~is_dict \/ ~class_aware
        \* keys of class2detections: the classes of the detections and, being a
        \* defaultdict, every requested class that was looked up
        requested == IF is_dict THEN DOMAIN required_objects.value ELSE {}
        detected == {detections[i].class : i \in 1..Len(detections)}
    IN  IF no_consensus_detections(detections) THEN absent
        ELSE IF count_is_int /\ Len(detections) < required_count THEN absent
        ELSE IF ~class_aware
             THEN IF Len(detections) = 0 THEN raising
                  ELSE [object_present |-> TRUE,
                        presence_confidence |->
                            [k \in {"any_object"} |->
                                aggregate_field_values(detections, aggregation_mode)],
                        raises |-> FALSE]
        ELSE IF \E c \in requested :
                    Len(detections_of_class(detections, c)) < required_objects.value[c]
             THEN absent
        ELSE IF requested \subseteq detected
             THEN [object_present |-> TRUE,
                   presence_confidence |-> class2confidence(detections, aggregation_mode),
                   raises |-> FALSE]
        ELSE raising

-----------------------------------------------------------------------------
(* Inputs of a call *)

Detection(x, y, width, height, class, class_id, confidence, parent) ==
    [x |-> x, y |-> y, width |-> width, height |-> height, class |-> class,
     class_id |-> class_id, confidence |-> confidence, parent_id |-> parent,
     detection_id |-> <<0, 0, 0>>]

(* corners (0,0)-(20,20) *)
CatFull == Detection(10, 10, 20, 20, "cat", 0, <<1, 1>>, "image_1")

(* corners (0,10)-(20,20): half of the box above, IoU with it exactly 1/2 *)
CatHalf == Detection(10, 15, 20, 10, "cat", 0, <<1, 4>>, "image_1")

(* the box of CatFull under another class *)
DogFull == Detection(10, 10, 20, 20, "dog", 1, <<5, 8>>, "image_1")

(* CatFull computed against another image *)
CatOtherImage == Detection(10, 10, 20, 20, "cat", 0, <<1, 1>>, "image_2")

Pool == {CatFull, CatHalf, DogFull}

BatchLists == {<<>>, <<CatFull>>, <<CatOtherImage>>}

(* upstream gives every raw detection its own detection_id *)
with_detection_ids(preds) ==
    [s \in 1..Len(preds) |->
        [b \in 1..Len(preds[s]) |->
            [k \in 1..Len(preds[s][b]) |->
                [preds[s][b][k] EXCEPT !.detection_id = <<s, b, k>>]]]]

(* the ways to cut a list of len detections into n consecutive source lists *)
Cuts(len, n) ==
    {c \in [1..(n - 1) -> 0..len] : \A i \in 1..(n - 2) : c[i] <= c[i + 1]}

Slice(flat, c, n, s) ==
    SubSeq(flat, (IF s = 1 THEN 0 ELSE c[s - 1]) + 1, IF s = n THEN Len(flat) ELSE c[s])

(* one batch element, 1..MaxSources sources, at most MaxDetections detections in all *)
ElementInputs ==
    UNION {UNION {{[s \in 1..n |-> <<Slice(flat, c, n, s)>>] : c \in Cuts(Len(flat), n)} :
                     flat \in SeqsUpTo(Pool, MaxDetections)} :
              n \in 1..MaxSources}

(* 0..MaxSources sources, each with a batch of 0..MaxBatch elements of its own *)
BatchInputs ==
    UNION {[1..n -> SeqsUpTo(BatchLists, MaxBatch)] : n \in 0..MaxSources}

NoRequiredObjects == [type |-> "NoneType"]

RequiredCount(n) == [type |-> "int", value |-> n]

RequiredPerClass(f) == [type |-> "dict", value |-> f]

(* BlockManifest(required_votes=...): required_votes is a field without a default,
   every other parameter is left at the default the manifest declares *)
BlockManifest(required_votes) ==
    [required_votes |-> required_votes,
     class_aware |-> TRUE,
     iou_threshold |-> <<3, 10>>,
     confidence |-> <<0, 1>>,
     classes_to_consider |-> AllClasses,
     required_objects |-> NoRequiredObjects,
     presence_confidence_aggregation |-> MAX,
     detections_merge_confidence_aggregation |-> AVERAGE,
     detections_merge_coordinates_aggregation |-> AVERAGE]

ConfigValues ==
    [required_votes |-> {1, 2, 3},
     class_aware |-> BOOLEAN,
     iou_threshold |-> {<<3, 10>>, <<1, 2>>},
     confidence |-> {<<0, 1>>, <<5, 8>>},
     classes_to_consider |-> {AllClasses, ClassList(<<"cat">>)},
     required_objects |-> {NoRequiredObjects, RequiredCount(2),
                           RequiredPerClass([c \in {"cat"} |-> 1])},
     presence_confidence_aggregation |-> AggregationMode,
     detections_merge_confidence_aggregation |-> AggregationMode,
     detections_merge_coordinates_aggregation |-> AggregationMode]

(* the parameters that resolve_batch_consensus hands to
   get_consensus_for_single_detection *)
MatcherParameters ==
    {"required_votes", "class_aware", "iou_threshold", "confidence",
     "detections_merge_confidence_aggregation", "detections_merge_coordinates_aggregation"}

(* the configurations that differ from BlockManifest(required_votes=1) in one
   parameter, or in two parameters of the matcher *)
Configs ==
    UNION {UNION {UNION {{[BlockManifest(1) EXCEPT ![p] = v, ![q] = w] :
                              w \in ConfigValues[q]} : v \in ConfigValues[p]} :
                     q \in IF p \in MatcherParameters THEN MatcherParameters ELSE {p}} :
              p \in DOMAIN ConfigValues}

BatchConfigs ==
    {[BlockManifest(v) EXCEPT !.classes_to_consider = c] :
        v \in {1, 2}, c \in {AllClasses, ClassList(<<"dog">>)}}

(* corners (0,5)-(40,15): the area of CatFull in another shape, IoU with it exactly
   1/3, under another class and with the same confidence *)
DogWide == Detection(20, 10, 40, 10, "dog", 1, <<1, 1>>, "image_1")

(* corners (40,40)-(60,60): a cat that overlaps none of the boxes above *)
CatFar == Detection(50, 50, 20, 20, "cat", 0, <<1, 16>>, "image_1")

(* detections whose groups tell the aggregation rules apart: equal and different
   areas, equal and different confidences, two classes, and two detections of one
   class that are never fused *)
AggregationPool == {CatFull, CatHalf, DogWide, CatFar}

(* one batch element, 1..MaxSources + 1 sources (a majority needs three members), each
   with at most one detection *)
AggregationElementInputs ==
    UNION {[1..n -> {<<detections>> : detections \in SeqsUpTo(AggregationPool, 1)}] :
              n \in 1..(MaxSources + 1)}

(* the calls of BatchInputs with at most one batch element per source *)
ShortBatchInputs == {p \in BatchInputs : \A s \in 1..Len(p) : Len(p[s]) <= 1}

(* every presence aggregation mode with every merge mode (the two merge modes set
   alike), every kind of required_objects on both presence paths, with and without a
   second vote required *)
AggregationConfigs ==
    {[BlockManifest(v) EXCEPT !.class_aware = a,
                              !.required_objects = r,
                              !.presence_confidence_aggregation = p,
                              !.detections_merge_confidence_aggregation = m,
                              !.detections_merge_coordinates_aggregation = m] :
        v \in {1, 2},
        a \in BOOLEAN,
        r \in {NoRequiredObjects, RequiredCount(2),
               RequiredPerClass([c \in {"cat"} |-> 1]),
               RequiredPerClass([c \in {"cat", "dog"} |-> 1])},
        p \in AggregationMode,
        m \in AggregationMode}

Metadata(batch) == [i \in 1..batch |-> [image |-> <<"frame", i>>]]

RECURSIVE MaxLen(_)
MaxLen(s) == IF s = <<>> THEN 0 ELSE Max2(Len(Head(s)), MaxLen(Tail(s)))

NoAttempt ==
    [batch_index |-> 0, source_id |-> 0, detection_id |-> <<0, 0, 0>>, outcome |-> "none",
     detections_to_merge |-> <<>>, considered_before |-> {}, output_before |-> <<>>,
     lacked_votes |-> {}]

InitLocals ==
    /\ pc = "start"
    /\ batch_index = 0
    /\ results = <<>>
    /\ parent_id = ""
    /\ element_predictions = <<>>
    /\ detections_already_considered = {}
    /\ consensus_detections = <<>>
    /\ cursor = 0
    /\ returned = <<>>
    /\ error = ""
    /\ uuid_counter = 0
    /\ lineage = <<>>
    /\ attempt = NoAttempt

InitElement ==
    /\ predictions \in {with_detection_ids(p) : p \in ElementInputs}
    /\ config \in Configs

InitBatch ==
    /\ predictions \in {with_detection_ids(p) : p \in BatchInputs}
    /\ config \in BatchConfigs

Init ==
    /\ InitElement \/ InitBatch
    /\ image_metadata = Metadata(MaxLen(predictions))
    /\ InitLocals

(* a third vote required, which three sources can give *)
ThreeVotesConfigs ==
    {[BlockManifest(3) EXCEPT !.class_aware = a] : a \in BOOLEAN}

(* the calls that exercise merging and presence *)
InitAggregationElement ==
    /\ predictions \in {with_detection_ids(p) : p \in AggregationElementInputs}
    /\ config \in AggregationConfigs \cup ThreeVotesConfigs

InitShortBatch ==
    /\ predictions \in {with_detection_ids(p) : p \in ShortBatchInputs}
    /\ config = BlockManifest(1)

InitAggregation ==
    /\ InitAggregationElement \/ InitShortBatch
    /\ image_metadata = Metadata(MaxLen(predictions))
    /\ InitLocals

(* the centre of CatFull as a box without width and height *)
CatPoint == Detection(10, 10, 0, 0, "cat", 0, <<1, 1>>, "image_1")

(* the vertical axis of CatFull: a box of full height and no width *)
CatEdge == Detection(10, 10, 0, 20, "cat", 0, <<1, 1>>, "image_1")

(* boxes with and without area that lie within one another *)
GeometryPool == {CatFull, CatHalf, CatPoint, CatEdge}

(* one batch element, 1..MaxSources + 1 sources of at most one detection each *)
GeometryElementInputs ==
    UNION {[1..n -> {<<detections>> : detections \in SeqsUpTo(GeometryPool, 1)}] :
              n \in 1..(MaxSources + 1)}

(* the ends and the inside of the range of iou_threshold, with and without a second
   vote required *)
GeometryConfigs ==
    {[BlockManifest(v) EXCEPT !.iou_threshold = t] :
        v \in {1, 2}, t \in {<<0, 1>>, <<3, 10>>, <<1, 1>>}}

(* the calls that compare boxes without area *)
InitGeometryElement ==
    /\ predictions \in {with_detection_ids(p) : p \in GeometryElementInputs}
    /\ config \in GeometryConfigs

InitGeometry ==
    /\ InitGeometryElement \/ InitShortBatch
    /\ image_metadata = Metadata(MaxLen(predictions))
    /\ InitLocals

(* one to three votes required, with and without the class filter *)
OrderConfigs ==
    {[BlockManifest(v) EXCEPT !.classes_to_consider = c] :
        v \in {1, 2, 3}, c \in {AllClasses, ClassList(<<"cat">>)}}

(* the calls whose sources hold several detections to visit *)
InitOrderElement ==
    /\ predictions \in {with_detection_ids(p) : p \in ElementInputs}
    /\ config \in OrderConfigs

InitOrder ==
    /\ InitOrderElement \/ InitShortBatch
    /\ image_metadata = Metadata(MaxLen(predictions))
    /\ InitLocals

(* the detection lists of the batch elements that are told apart: none, one
   detection, and two detections of which the cat overlaps CatFull *)
ElementLists == {<<>>, <<CatFull>>, <<CatHalf, DogFull>>}

(* 1..MaxSources sources with one batch of 1..MaxBatch elements each, all batches of
   one length *)
RectangularInputs ==
    UNION {[1..n -> [1..b -> ElementLists]] : n \in 1..MaxSources, b \in 1..MaxBatch}

(* a detection needs the vote of a second source *)
TwoVotesConfig == BlockManifest(2)

(* the calls whose batch elements each produce a record of their own *)
InitRectangular ==
    /\ predictions \in {with_detection_ids(p) : p \in RectangularInputs}
    /\ config = TwoVotesConfig

InitIndependence ==
    /\ InitRectangular \/ InitShortBatch
    /\ image_metadata = Metadata(MaxLen(predictions))
    /\ InitLocals

-----------------------------------------------------------------------------
(* DetectionsConsensusBlock.run_locally *)

Raise(message) ==
    /\ pc' = "raised"
    /\ error' = message
    /\ UNCHANGED returned

(* lines 204-207 *)
run_locally_no_sources ==
    /\ pc = "start"
    /\ Len(predictions) < 1
    /\ Raise("Consensus step requires at least one source of predictions.")
    /\ UNCHANGED <<predictions, image_metadata, config, batch_index, results, parent_id,
                   element_predictions, detections_already_considered,
                   consensus_detections, cursor, uuid_counter, lineage, attempt>>

(* lines 208-210 with get_and_validate_batch_sizes, lines 245-251 *)
run_locally_dimension_mismatch ==
    /\ pc = "start"
    /\ ~(Len(predictions) < 1)
    /\ ~all_batch_sizes_equal(get_predictions_batch_sizes(predictions))
    /\ Raise("Detected missmatch of input dimensions.")
    /\ UNCHANGED <<predictions, image_metadata, config, batch_index, results, parent_id,
                   element_predictions, detections_already_considered,
                   consensus_detections, cursor, uuid_counter, lineage, attempt>>

(* lines 208-213: validation passed, the loop over the batch starts *)
run_locally_start ==
    /\ pc = "start"
    /\ ~(Len(predictions) < 1)
    /\ all_batch_sizes_equal(get_predictions_batch_sizes(predictions))
    /\ pc' = "for_batch"
    /\ batch_index' = 1
    /\ results' = <<>>
    /\ UNCHANGED <<predictions, image_metadata, config, parent_id, element_predictions,
                   detections_already_considered, consensus_detections, cursor,
                   returned, error, uuid_counter, lineage, attempt>>

(* line 211 *)
batch_size == get_predictions_batch_sizes(predictions)[1]

(* Mutation of line 214: every iteration reads the first batch element *)
batch_element_predictions_first == [s \in 1..Len(predictions) |-> predictions[s][1]]

(* line 214 *)
batch_element_predictions ==[s \in 1..Len(predictions) |-> predictions[s][batch_index]]

(* lines 232-241 *)
result_record(parent, object_present, presence_confidence, detections) ==
    [predictions |-> detections,
     parent_id |-> parent,
     object_present |-> object_present,
     presence_confidence |-> presence_confidence,
     image |-> image_metadata[batch_index],
     prediction_type |-> "object-detection"]

(* one loop iteration whose resolve_batch_consensus returns at lines 372-373 *)
resolve_batch_consensus_empty ==
    /\ pc = "for_batch"
    /\ batch_index <= batch_size
    /\ does_not_detected_objects_in_any_source(batch_element_predictions)
    /\ results' = Append(results, result_record("undefined", FALSE, EmptyDict, <<>>))
    /\ batch_index' = batch_index + 1
    /\ UNCHANGED <<predictions, image_metadata, config, pc, parent_id, element_predictions,
                   detections_already_considered, consensus_detections, cursor,
                   returned, error, uuid_counter, lineage, attempt>>

(* resolve_batch_consensus, lines 374-376, raising at line 269 (ExecutionGraphError), or
   at line 275 (IndexError) were the set of parent identifiers empty *)
resolve_batch_consensus_parent_mismatch ==
    /\ pc = "for_batch"
    /\ batch_index <= batch_size
    /\ ~does_not_detected_objects_in_any_source(batch_element_predictions)
    /\ IF parent_ids_mismatch(batch_element_predictions) THEN TRUE
       ELSE encountered_parent_ids(batch_element_predictions) = {}
    /\ Raise(IF parent_ids_mismatch(batch_element_predictions)
             THEN "Missmatch in predictions"
             ELSE "list index out of range")
    /\ UNCHANGED <<predictions, image_metadata, config, batch_index, results, parent_id,
                   element_predictions, detections_already_considered,
                   consensus_detections, cursor, uuid_counter, lineage, attempt>>

(* Mutation of line 382: the list of the previous batch element is carried over *)
consensus_detections_carried_over == consensus_detections

(* line 382: consensus_detections = [] *)
empty_consensus_detections == <<>>

(* resolve_batch_consensus, lines 374-382 *)
resolve_batch_consensus_begin ==
    /\ pc = "for_batch"
    /\ batch_index <= batch_size
    /\ ~does_not_detected_objects_in_any_source(batch_element_predictions)
    /\ ~parent_ids_mismatch(batch_element_predictions)
    /\ encountered_parent_ids(batch_element_predictions) # {}
    /\ parent_id' = get_parent_id_of_predictions_from_different_sources(batch_element_predictions)
    /\ element_predictions' =
           filter_predictions(batch_element_predictions, config.classes_to_consider)
    /\ detections_already_considered' = {}
    /\ consensus_detections' = empty_consensus_detections
    /\ cursor' = 1
    /\ pc' = "for_detection"
    /\ UNCHANGED <<predictions, image_metadata, config, batch_index, results,
                   returned, error, uuid_counter, lineage, attempt>>

(* Mutation of line 383: only the detections of the first source are visited as seeds *)
enumerated_first_source == enumerate_detections(<<element_predictions[1]>>, 0)

(* the detections the loop of line 383 visits *)
enumerated == enumerate_detections(element_predictions, 0)

(* one iteration of the loop of lines 383-399 *)
resolve_batch_consensus_step ==
    /\ pc = "for_detection"
    /\ cursor <= Len(enumerated)
    /\ LET source_id == enumerated[cursor][1]
           detection == enumerated[cursor][2]
           uuid == <<0, 0, uuid_counter + 1>>
       IN  \E update \in {get_consensus_for_single_detection(
                              detection, source_id, element_predictions,
                              config.iou_threshold, config.class_aware,
                              config.required_votes, config.confidence,
                              config.detections_merge_confidence_aggregation,
                              config.detections_merge_coordinates_aggregation,
                              detections_already_considered, uuid)} :
           \* uuid4() runs inside merge_detections, so on both returns after line 447
           LET merged == update.outcome \in {"below_confidence", "accepted"} IN
           /\ consensus_detections' = consensus_detections \o update.consensus_detections
           /\ detections_already_considered' = update.detections_already_considered
           /\ uuid_counter' = IF merged THEN uuid_counter + 1 ELSE uuid_counter
           /\ lineage' = IF update.outcome = "accepted"
                         THEN lineage @@ (uuid :> update.detections_to_merge)
                         ELSE lineage
           /\ attempt' = [batch_index |-> batch_index,
                          source_id |-> source_id,
                          detection_id |-> detection.detection_id,
                          outcome |-> update.outcome,
                          detections_to_merge |-> update.detections_to_merge,
                          considered_before |-> detections_already_considered,
                          output_before |-> consensus_detections,
                          \* the seeds of this element that lacked votes so far
                          lacked_votes |->
                              (IF attempt.batch_index = batch_index
                               THEN attempt.lacked_votes ELSE {})
                              \cup (IF update.outcome = "lacks_votes"
                                    THEN {detection.detection_id} ELSE {})]
    /\ cursor' = cursor + 1
    /\ UNCHANGED <<predictions, image_metadata, config, pc, batch_index, results, parent_id,
                   element_predictions, returned, error>>

(* lines 400-414 and 232-241: the loop of line 383 is exhausted *)
resolve_batch_consensus_finish ==
    /\ pc = "for_detection"
    /\ cursor > Len(enumerated)
    /\ LET presence == check_objects_presence_in_consensus_predictions(
                           consensus_detections, config.class_aware,
                           config.presence_confidence_aggregation, config.required_objects)
       IN  IF presence.raises
           THEN /\ pc' = "raised"
                /\ error' = "aggregation of an empty list"
                /\ UNCHANGED <<results, batch_index>>
           ELSE /\ results' = Append(results,
                                     result_record(parent_id, presence.object_present,
                                                   presence.presence_confidence,
                                                   consensus_detections))
                /\ batch_index' = batch_index + 1
                /\ pc' = "for_batch"
                /\ UNCHANGED error
    /\ UNCHANGED <<predictions, image_metadata, config, parent_id, element_predictions,
                   detections_already_considered, consensus_detections, cursor,
                   returned, uuid_counter, lineage, attempt>>

(* line 242 *)
run_locally_return ==
    /\ pc = "for_batch"
    /\ batch_index > batch_size
    /\ pc' = "returned"
    /\ returned' = results
    /\ UNCHANGED <<predictions, image_metadata, config, batch_index, results, parent_id,
                   element_predictions, detections_already_considered,
                   consensus_detections, cursor, error, uuid_counter, lineage, attempt>>

Next ==
    \/ run_locally_no_sources
    \/ run_locally_dimension_mismatch
    \/ run_locally_start
    \/ resolve_batch_consensus_empty
    \/ resolve_batch_consensus_parent_mismatch
    \/ resolve_batch_consensus_begin
    \/ resolve_batch_consensus_step
    \/ resolve_batch_consensus_finish
    \/ run_locally_return

Spec == Init /\ [][Next]_vars

SpecAggregation == InitAggregation /\ [][Next]_vars

SpecIndependence == InitIndependence /\ [][Next]_vars

SpecGeometry == InitGeometry /\ [][Next]_vars

(* an iteration of the loop of line 383 as a step of the call: a step of Next taken
   inside the loop that advances the cursor. The first disjunct is no step of Next (an
   iteration always records its attempt); with it the iteration is enabled exactly when
   the guard of resolve_batch_consensus_step holds. *)
loop_iteration ==
    /\ pc = "for_detection"
    /\ cursor <= Len(enumerated)
    /\ cursor' = cursor + 1
    /\ \/ UNCHANGED <<predictions, image_metadata, config, pc, batch_index, results,
                      parent_id, element_predictions, detections_already_considered,
                      consensus_detections, returned, error, uuid_counter, lineage,
                      attempt>>
       \/ Next

(* the call runs in one thread, which executes the next iteration of the loop, and the
   statements after the loop, whenever it stands before them *)
SpecOrder ==
    /\ InitOrder
    /\ [][Next]_vars
    /\ WF_vars(loop_iteration)
    /\ WF_vars(resolve_batch_consensus_finish)

-----------------------------------------------------------------------------
(* Vocabulary of the properties *)

(* the call passed both checks of lines 204-210 *)
ValidShape ==
    /\ Len(predictions) >= 1
    /\ \A s \in 1..Len(predictions) : Len(predictions[s]) = Len(predictions[1])

(* the raw detections of batch element i, one list per source *)
RawElement(i) == [s \in 1..Len(predictions) |-> predictions[s][i]]

RawParents(i) == encountered_parent_ids(RawElement(i))

AllEmpty(i) == \A s \in 1..Len(predictions) : Len(predictions[s][i]) = 0

(* the group a merged detection was built from, and the ids of its members *)
Members(merged) == lineage[merged.detection_id]

MemberIds(merged) == {Members(merged)[k].detection_id : k \in 1..Len(Members(merged))}

IdsOf(detections) == {detections[k].detection_id : k \in 1..Len(detections)}

(* every list of merged detections the call has produced so far *)
OutputLists ==
    {consensus_detections} \cup {results[i].predictions : i \in 1..Len(results)}
                           \cup {returned[i].predictions : i \in 1..Len(returned)}

(* attempt describes a grouping attempt of the element being processed *)
CurrentAttempt == pc = "for_detection" /\ attempt.batch_index = batch_index

AttemptConfidence ==
    aggregate_field_values(attempt.detections_to_merge,
                           config.detections_merge_confidence_aggregation)

-----------------------------------------------------------------------------
(* C1: at-most-once consumption. The member sets (seed and matched detections) of any
   two merged detections output for one batch element are disjoint: no raw detection
   belongs to more than one accepted consensus group. *)
C1_AtMostOnceConsumption ==
    \A list \in OutputLists :
        \A j, k \in 1..Len(list) :
            j # k => MemberIds(list[j]) \cap MemberIds(list[k]) = {}

(* two groups accepted for one element, one of them with a matched detection, and a
   seed skipped because an earlier group had consumed it *)
C1_Witness ==
    /\ CurrentAttempt
    /\ attempt.outcome = "already_considered"
    /\ Len(consensus_detections) >= 2
    /\ \E j \in 1..Len(consensus_detections) :
           Cardinality(MemberIds(consensus_detections[j])) >= 2

(* C2: vote threshold. Every merged detection in the output was built from detections
   of at least required_votes distinct sources, the seed's source included; a seed with
   fewer than required_votes - 1 matched other sources appends nothing; nothing is
   output when required_votes exceeds the number of sources. *)
C2_VoteThreshold ==
    /\ \A list \in OutputLists :
           \A j \in 1..Len(list) :
               Cardinality({id[1] : id \in MemberIds(list[j])}) >= config.required_votes
    /\ (/\ CurrentAttempt
        /\ attempt.outcome # "already_considered"
        /\ Len(attempt.detections_to_merge) - 1 < config.required_votes - 1)
           => /\ attempt.outcome = "lacks_votes"
              /\ consensus_detections = attempt.output_before
    /\ (ValidShape /\ config.required_votes > Len(predictions))
           => \A list \in OutputLists : list = <<>>

(* a seed rejected for lack of votes after another group of the element was accepted *)
C2_Witness ==
    /\ CurrentAttempt
    /\ attempt.outcome = "lacks_votes"
    /\ config.required_votes = 2
    /\ Len(attempt.detections_to_merge) = 1
    /\ Len(consensus_detections) >= 1

(* C3: confidence floor. Every merged detection in the output has an aggregated
   confidence not below the configured threshold; a group whose merged confidence is
   strictly below the threshold is never appended, one whose merged confidence equals
   the threshold is appended. *)
C3_ConfidenceFloor ==
    /\ \A list \in OutputLists :
           \A j \in 1..Len(list) : ~RatLess(list[j].confidence, config.confidence)
    /\ (CurrentAttempt /\ attempt.outcome \in {"below_confidence", "accepted"})
           => IF RatLess(AttemptConfidence, config.confidence)
              THEN /\ attempt.outcome = "below_confidence"
                   /\ consensus_detections = attempt.output_before
              ELSE /\ attempt.outcome = "accepted"
                   /\ Len(consensus_detections) = Len(attempt.output_before) + 1
                   /\ consensus_detections[Len(consensus_detections)].confidence
                          = AttemptConfidence

(* a group whose merged confidence equals a positive threshold was appended *)
C3_Witness ==
    /\ CurrentAttempt
    /\ attempt.outcome = "accepted"
    /\ config.confidence = <<5, 8>>
    /\ AttemptConfidence = config.confidence

(* C4, as the specification states it: a group that passes the votes check but whose
   merged confidence is strictly below the threshold produces no output and its seed
   and matched detections are in the consumption set after the attempt. *)
C4_RejectedGroupMarkedConsumed ==
    (CurrentAttempt /\ attempt.outcome = "below_confidence")
        => /\ consensus_detections = attempt.output_before
           /\ IdsOf(attempt.detections_to_merge) \subseteq detections_already_considered

(* C4, as the code behaves: such a group produces no output and the consumption set
   is left as it was before the attempt, so that none of the group's detections is in
   it and each of them stays eligible as a seed or a match later in the element. *)
C4_RejectedGroupNotConsumed ==
    (CurrentAttempt /\ attempt.outcome = "below_confidence")
        => /\ consensus_detections = attempt.output_before
           /\ detections_already_considered = attempt.considered_before
           /\ IdsOf(attempt.detections_to_merge) \cap detections_already_considered = {}

(* a group of a seed and a matched detection rejected for its merged confidence *)
C4_Witness ==
    /\ CurrentAttempt
    /\ attempt.outcome = "below_confidence"
    /\ Len(attempt.detections_to_merge) >= 2

(* the record of an element for which nothing was detected *)
IsUndefinedRecord(record) ==
    /\ record.parent_id = "undefined"
    /\ record.object_present = FALSE
    /\ record.presence_confidence = EmptyDict
    /\ record.predictions = <<>>

(* C5: empty-input law. If every source's detection list for a batch element is empty,
   the element's result is parent_id "undefined", object_present False, an empty
   presence_confidence and no merged detections, under every configuration, and neither
   parent validation nor matching runs for the element. *)
C5_EmptyInputLaw ==
    ValidShape =>
        \A i \in 1..batch_size :
            AllEmpty(i) =>
                /\ i <= Len(results) => IsUndefinedRecord(results[i])
                /\ i <= Len(returned) => IsUndefinedRecord(returned[i])
                /\ ~(pc \in {"for_detection", "raised"} /\ batch_index = i)
                /\ attempt.batch_index # i

(* a returned batch whose second element is empty in every source, under a
   configuration that requires objects to be present *)
C5_Witness ==
    /\ pc = "returned"
    /\ Len(predictions) = 2
    /\ Len(returned) = 2
    /\ AllEmpty(2)
    /\ ~AllEmpty(1)
    /\ returned[1].predictions # <<>>
    /\ IsUndefinedRecord(returned[2])

(* batch element i holds raw detections and the class filter removes all of them *)
FilterRemovesAll(i) ==
    /\ config.classes_to_consider.type = "list"
    /\ ~AllEmpty(i)
    /\ \A s \in 1..Len(predictions) :
           \A k \in 1..Len(predictions[s][i]) :
               predictions[s][i][k].class \notin Range(config.classes_to_consider.value)

(* C6, as the specification states it: when the class filter removes every raw
   detection of an element, its result is that of an element without detections,
   parent_id "undefined" included, and no error is raised. *)
C6_FilteredEmptyIsUndefined ==
    ValidShape =>
        \A i \in 1..batch_size :
            FilterRemovesAll(i) =>
                /\ i <= Len(results) => IsUndefinedRecord(results[i])
                /\ ~(pc = "raised" /\ batch_index = i)

(* C6, as the code behaves: parent validation runs on the raw detections before the
   filter, so the result has object_present False, an empty presence_confidence and no
   merged detections, but its parent_id is the one the raw detections share; the call
   fails only when they carry more than one parent_id. *)
C6_FilteredEmptyKeepsParent ==
    ValidShape =>
        \A i \in 1..batch_size :
            FilterRemovesAll(i) =>
                /\ i <= Len(results) =>
                       /\ RawParents(i) = {results[i].parent_id}
                       /\ results[i].parent_id # "undefined"
                       /\ results[i].object_present = FALSE
                       /\ results[i].presence_confidence = EmptyDict
                       /\ results[i].predictions = <<>>
                /\ (pc = "raised" /\ batch_index = i) =>
                       /\ Cardinality(RawParents(i)) > 1
                       /\ error = "Missmatch in predictions"
                /\ (CurrentAttempt /\ batch_index = i) => consensus_detections = <<>>

(* a returned record of an element whose detections were all filtered out *)
C6_Witness ==
    /\ pc = "returned"
    /\ \E i \in 1..Len(returned) :
           /\ FilterRemovesAll(i)
           /\ returned[i].parent_id = "image_1"
           /\ returned[i].predictions = <<>>

(* C7: parent validation. If the raw detections of a batch element carry more than one
   parent_id, the call fails at that element and returns no result list, whatever was
   computed for earlier elements; if they carry exactly one, validation passes and
   that value is the element's parent_id. *)
C7_ParentValidation ==
    ValidShape =>
        /\ \A i \in 1..batch_size :
               Cardinality(RawParents(i)) > 1 =>
                   /\ Len(results) < i
                   /\ batch_index <= i
                   /\ pc \notin {"returned", "for_detection"} \/ batch_index < i
                   /\ returned = <<>>
                   /\ (batch_index = i /\ pc = "raised") => error = "Missmatch in predictions"
        /\ \A i \in 1..batch_size :
               Cardinality(RawParents(i)) = 1 =>
                   /\ ~(pc = "raised" /\ batch_index = i /\ error = "Missmatch in predictions")
                   /\ i <= Len(results) => results[i].parent_id \in RawParents(i)
                   /\ (pc = "for_detection" /\ batch_index = i) => parent_id \in RawParents(i)
        /\ pc = "raised" => returned = <<>>

(* the call failed at its second element after a result was computed for the first *)
C7_Witness ==
    /\ pc = "raised"
    /\ error = "Missmatch in predictions"
    /\ batch_index = 2
    /\ Len(results) = 1
    /\ results[1].predictions # <<>>
    /\ returned = <<>>

(* C8: detections of different images are never fused. In every result record each
   merged detection's parent_id equals the parent_id of every raw detection of its
   group and the record's parent_id. *)
C8_NeverFusesAcrossImages ==
    /\ \A i \in 1..Len(results) :
           \A j \in 1..Len(results[i].predictions) :
               LET merged == results[i].predictions[j]
               IN  /\ merged.parent_id = results[i].parent_id
                   /\ \A k \in 1..Len(Members(merged)) :
                          Members(merged)[k].parent_id = merged.parent_id
    /\ pc = "returned" => returned = results

(* a returned batch of two images, each with a group fused from two sources *)
C8_Witness ==
    /\ pc = "returned"
    /\ Len(returned) = 2
    /\ returned[1].parent_id = "image_1"
    /\ returned[2].parent_id = "image_2"
    /\ \A i \in 1..2 :
           /\ Len(returned[i].predictions) = 1
           /\ Len(Members(returned[i].predictions[1])) = 2

(* C9: batch-shape validation precedes all per-element work. A call without sources
   and a call whose sources have batches of unequal length both fail before any batch
   element is processed, and nothing is returned. *)
C9_ShapeValidationFirst ==
    (pc # "start" /\ ~ValidShape) =>
        /\ pc = "raised"
        /\ error = IF Len(predictions) = 0
                   THEN "Consensus step requires at least one source of predictions."
                   ELSE "Detected missmatch of input dimensions."
        /\ batch_index = 0
        /\ results = <<>>
        /\ returned = <<>>
        /\ attempt = NoAttempt
        /\ uuid_counter = 0
        /\ consensus_detections = <<>>
        /\ detections_already_considered = {}

(* the call failed on two sources with batches of different lengths that hold
   detections *)
C9_Witness ==
    /\ pc = "raised"
    /\ Len(predictions) = 2
    /\ Len(predictions[1]) = 1
    /\ Len(predictions[2]) = 2
    /\ predictions[1][1] # <<>>
    /\ results = <<>>

(* C10: a valid call with batch size B returns exactly B records in input order; record
   i is computed from the i-th detection list of every source and carries
   image_metadata[i] unchanged and prediction_type "object-detection". *)
C10_OneRecordPerElement ==
    /\ pc = "returned" =>
           /\ ValidShape
           /\ returned = results
           /\ Len(returned) = batch_size
    /\ ValidShape =>
           \A i \in 1..Len(results) :
               /\ results[i].image = image_metadata[i]
               /\ results[i].prediction_type = "object-detection"
               /\ results[i].parent_id =
                      IF AllEmpty(i) THEN "undefined"
                      ELSE get_parent_id_of_predictions_from_different_sources(RawElement(i))
               /\ \A j \in 1..Len(results[i].predictions) :
                      \A k \in 1..Len(Members(results[i].predictions[j])) :
                          LET member == Members(results[i].predictions[j])[k]
                              id == member.detection_id
                          IN  /\ id[2] = i
                              /\ id[1] \in 1..Len(predictions)
                              /\ id[3] \in 1..Len(predictions[id[1]][i])
                              /\ predictions[id[1]][i][id[3]] = member

(* a returned batch of two records that differ: nothing for the first element, a
   merged detection for the second *)
C10_Witness ==
    /\ pc = "returned"
    /\ Len(returned) = 2
    /\ returned[1].predictions = <<>>
    /\ returned[2].predictions # <<>>
    /\ returned[1].image # returned[2].image

-----------------------------------------------------------------------------
(* Vocabulary of the matching properties: the last grouping attempt, read against the
   filtered detections of the element and the consumption set it started from *)

(* a seed was visited that was not consumed: a candidate group was formed *)
GroupFormed == CurrentAttempt /\ attempt.outcome # "already_considered"

AttemptSeed == attempt.detections_to_merge[1]

AttemptIoU(s, k) == calculate_iou(AttemptSeed, element_predictions[s][k])

(* the indices of the candidates of source s the seed may be matched with *)
Eligible(s) ==
    {k \in 1..Len(element_predictions[s]) :
        /\ element_predictions[s][k].detection_id \notin attempt.considered_before
        /\ config.class_aware => element_predictions[s][k].class = AttemptSeed.class
        /\ RatLess(config.iou_threshold, AttemptIoU(s, k))}

(* the eligible candidate of the highest IoU, the lowest index among equals *)
BestEligible(s) ==
    CHOOSE k \in Eligible(s) :
        \A j \in Eligible(s) :
            \/ RatLess(AttemptIoU(s, j), AttemptIoU(s, k))
            \/ AttemptIoU(s, j) = AttemptIoU(s, k) /\ k <= j

(* the matched detections of the group that come from source s *)
ChosenFrom(s) ==
    {attempt.detections_to_merge[m] : m \in
        {n \in 2..Len(attempt.detections_to_merge) :
            attempt.detections_to_merge[n].detection_id[1] = s}}

OtherSources == (1..Len(element_predictions)) \ {attempt.source_id}

(* C11: best-candidate selection. For a seed and each other source, the detection chosen
   from that source is the candidate of the highest IoU with the seed among those not yet
   consumed, of the seed's class when class_aware, and of IoU strictly above
   iou_threshold; among candidates that tie for the highest IoU the one of the lowest
   index is chosen; a source without eligible candidate contributes no match, and a
   candidate whose IoU equals the threshold is never chosen. *)
C11_BestCandidateSelection ==
    GroupFormed =>
        /\ \A s \in OtherSources :
               ChosenFrom(s) = IF Eligible(s) = {} THEN {}
                               ELSE {element_predictions[s][BestEligible(s)]}
        /\ \A m \in 2..Len(attempt.detections_to_merge) :
               /\ RatLess(config.iou_threshold,
                          calculate_iou(AttemptSeed, attempt.detections_to_merge[m]))
               /\ attempt.detections_to_merge[m].detection_id \notin attempt.considered_before

(* a source held two eligible candidates that tie for the highest IoU and the first of
   them was chosen *)
C11_Witness ==
    /\ GroupFormed
    /\ \E s \in OtherSources :
           \E j, k \in Eligible(s) :
               /\ j < k
               /\ AttemptIoU(s, j) = AttemptIoU(s, k)
               /\ BestEligible(s) = j
               /\ ChosenFrom(s) = {element_predictions[s][j]}

(* C12: group structure. Every candidate group contains the seed, no other detection of
   the seed's own source and at most one detection of each other source, so that its
   size lies between 1 and the number of sources; an accepted group is what the merged
   detection was built from. *)
C12_GroupStructure ==
    GroupFormed =>
        LET group == attempt.detections_to_merge
        IN  /\ Len(group) \in 1..Len(predictions)
            /\ group[1].detection_id = attempt.detection_id
            /\ group[1].detection_id[1] = attempt.source_id
            /\ \A m \in 2..Len(group) :
                   /\ group[m].detection_id[1] \in OtherSources
                   /\ \A n \in 2..Len(group) :
                          m # n => group[m].detection_id[1] # group[n].detection_id[1]
            /\ \A m \in 1..Len(group) :
                   \E k \in 1..Len(element_predictions[group[m].detection_id[1]]) :
                       element_predictions[group[m].detection_id[1]][k] = group[m]
            /\ attempt.outcome = "accepted" =>
                   Members(consensus_detections[Len(consensus_detections)]) = group

(* a group of one detection per source, formed while the seed's own source held another
   unconsumed detection that overlaps the seed above the threshold *)
C12_Witness ==
    /\ GroupFormed
    /\ Len(predictions) >= 2
    /\ Len(attempt.detections_to_merge) = Len(predictions)
    /\ \E k \in Eligible(attempt.source_id) :
           element_predictions[attempt.source_id][k].detection_id # attempt.detection_id

(* C13: with required_votes = 1 every detection that is not consumed when it is visited
   passes the required-votes check, a seed that no other source matches included; it is
   output as a merged detection unless its merged confidence is below the confidence
   threshold. *)
C13_SelfVoteSuffices ==
    (GroupFormed /\ config.required_votes = 1) =>
        /\ attempt.outcome \in {"accepted", "below_confidence"}
        /\ attempt.outcome = "accepted" <=> ~RatLess(AttemptConfidence, config.confidence)
        /\ attempt.outcome = "accepted" =>
               /\ Len(consensus_detections) = Len(attempt.output_before) + 1
               /\ SubSeq(consensus_detections, 1, Len(attempt.output_before))
                      = attempt.output_before
               /\ Members(consensus_detections[Len(consensus_detections)])
                      = attempt.detections_to_merge

(* a seed that no detection of the other source matches was output on its own *)
C13_Witness ==
    /\ GroupFormed
    /\ config.required_votes = 1
    /\ attempt.outcome = "accepted"
    /\ Len(attempt.detections_to_merge) = 1
    /\ \E s \in OtherSources : Len(element_predictions[s]) > 0

(* the detections of batch element i that pass the class filter, one list per source *)
FilteredElement(i) == filter_predictions(RawElement(i), config.classes_to_consider)

(* the record of element i holds at least as many merged detections as any one source
   holds detections after the class filter *)
CoversEverySource(i) ==
    \A s \in 1..Len(predictions) :
        Len(results[i].predictions) >= Len(FilteredElement(i)[s])

(* C14, as the specification states it: with required_votes = 1 the number of merged
   detections output for a batch element is at least the number of post-filter
   detections of each individual source. *)
C14_SingleSourceLowerBound ==
    (ValidShape /\ config.required_votes = 1) =>
        \A i \in 1..Len(results) : CoversEverySource(i)

(* C14, as the code behaves: the bound holds with required_votes = 1 when the
   confidence threshold is 0, so that no group is rejected for its merged confidence;
   a rejected group outputs nothing for the detections it holds. *)
C14_LowerBoundWithoutRejection ==
    (ValidShape /\ config.required_votes = 1 /\ config.confidence = <<0, 1>>) =>
        \A i \in 1..Len(results) : CoversEverySource(i)

(* two sources with post-filter detections, fused into as many merged detections as
   the larger source holds *)
C14_Witness ==
    /\ pc = "returned"
    /\ config.required_votes = 1
    /\ config.confidence = <<0, 1>>
    /\ Len(predictions) = 2
    /\ Len(returned) = 1
    /\ Len(FilteredElement(1)[1]) = 2
    /\ Len(FilteredElement(1)[2]) = 1
    /\ Len(returned[1].predictions) = 2

-----------------------------------------------------------------------------
(* Vocabulary of the presence properties: a result record read against the
   configuration *)

(* the sum of the counts a mapping gives to the class names in keys *)
RECURSIVE TotalOver(_, _)
TotalOver(f, keys) ==
    IF keys = {} THEN 0
    ELSE LET k == CHOOSE k \in keys : TRUE
         IN  f[k] + TotalOver(f, keys \ {k})

(* the required count of the non-class-aware path *)
RequiredTotal ==
    IF config.required_objects.type = "NoneType" THEN 0
    ELSE IF config.required_objects.type = "int" THEN config.required_objects.value
    ELSE TotalOver(config.required_objects.value, DOMAIN config.required_objects.value)

(* the max / min / mean of the confidences of a non-empty list of merged detections *)
ExpectedAggregate(detections, mode) ==
    LET values == [j \in 1..Len(detections) |-> detections[j].confidence]
    IN  CASE mode = MAX -> CHOOSE v \in Range(values) : \A w \in Range(values) : RatLeq(w, v)
          [] mode = MIN -> CHOOSE v \in Range(values) : \A w \in Range(values) : RatLeq(v, w)
          [] mode = AVERAGE -> StatisticsMean(values)

IsAbsent(record) ==
    /\ record.object_present = FALSE
    /\ record.presence_confidence = EmptyDict

IsAnyObjectPresent(record) ==
    /\ record.object_present = TRUE
    /\ DOMAIN record.presence_confidence = {"any_object"}
    /\ record.presence_confidence["any_object"]
           = ExpectedAggregate(record.predictions, config.presence_confidence_aggregation)

(* the number of merged detections of a record that carry a class *)
CountOfClass(record, c) ==
    Cardinality({j \in 1..Len(record.predictions) : record.predictions[j].class = c})

ClassesOf(record) == {record.predictions[j].class : j \in 1..Len(record.predictions)}

(* the presence evaluator never fails *)
PresenceNeverRaises ==
    pc = "raised" => error \in {"Consensus step requires at least one source of predictions.",
                                "Detected missmatch of input dimensions.",
                                "Missmatch in predictions"}

(* C15, as the specification states it: with class_aware = False the required count is
   required_objects, the sum of its values when it is a mapping, 0 when it is None; a
   record with fewer merged detections than the required count has object_present
   False and an empty presence_confidence, every other record has object_present True
   and the single key "any_object" holding the aggregate of the merged confidences.
   Stated for the elements that hold raw detections. *)
C15_AnyObjectUnlessBelowCount ==
    (ValidShape /\ ~config.class_aware) =>
        \A i \in 1..Len(results) :
            ~AllEmpty(i) =>
                IF Len(results[i].predictions) < RequiredTotal
                THEN IsAbsent(results[i])
                ELSE IsAnyObjectPresent(results[i])

(* C15, as the code behaves: a record without merged detections has object_present
   False and an empty presence_confidence whatever the required count is; the rest is
   as stated. *)
C15_AnyObjectPresence ==
    ~config.class_aware =>
        /\ \A i \in 1..Len(results) :
               IF \/ Len(results[i].predictions) = 0
                  \/ Len(results[i].predictions) < RequiredTotal
               THEN IsAbsent(results[i])
               ELSE IsAnyObjectPresent(results[i])
        /\ PresenceNeverRaises

(* two merged detections of one class meet a mapping over two classes whose values sum
   to two, and the mean of their confidences is reported *)
C15_Witness ==
    /\ pc = "returned"
    /\ ~config.class_aware
    /\ config.required_objects = RequiredPerClass([c \in {"cat", "dog"} |-> 1])
    /\ config.presence_confidence_aggregation = AVERAGE
    /\ Len(returned) = 1
    /\ Len(returned[1].predictions) = 2
    /\ ClassesOf(returned[1]) = {"cat"}
    /\ returned[1].object_present
    /\ returned[1].presence_confidence["any_object"] \notin
           {returned[1].predictions[j].confidence : j \in 1..2}

(* C16: presence on the class-aware path with a mapping. object_present is True only if
   every named class has at least its required count of merged detections; when a
   named class has fewer, a class without any merged detection included, the record
   has object_present False and an empty presence_confidence, and nothing is raised. *)
C16_EveryNamedClassPresent ==
    (config.class_aware /\ config.required_objects.type = "dict") =>
        /\ \A i \in 1..Len(results) :
               LET short == {c \in DOMAIN config.required_objects.value :
                                CountOfClass(results[i], c) < config.required_objects.value[c]}
               IN  /\ results[i].object_present => short = {}
                   /\ short # {} => IsAbsent(results[i])
        /\ PresenceNeverRaises

(* merged detections of one named class only, under a mapping that names two *)
C16_Witness ==
    /\ pc = "returned"
    /\ config.class_aware
    /\ config.required_objects = RequiredPerClass([c \in {"cat", "dog"} |-> 1])
    /\ Len(returned) = 1
    /\ ClassesOf(returned[1]) = {"cat"}
    /\ Len(returned[1].predictions) = 2
    /\ IsAbsent(returned[1])

(* C17: presence requires a merged detection. When the matcher yields no merged
   detection for an element that holds raw detections, the record has object_present
   False and an empty presence_confidence, for every class_aware, every presence
   aggregation mode and every required_objects, and nothing is raised. *)
C17_NoMergedDetectionNoPresence ==
    /\ ValidShape =>
           \A i \in 1..Len(results) :
               (~AllEmpty(i) /\ results[i].predictions = <<>>) => IsAbsent(results[i])
    /\ (pc = "for_detection" /\ consensus_detections = <<>>) =>
           LET presence == check_objects_presence_in_consensus_predictions(
                               consensus_detections, config.class_aware,
                               config.presence_confidence_aggregation,
                               config.required_objects)
           IN  ~presence.raises /\ ~presence.object_present
    /\ PresenceNeverRaises

(* a returned record without merged detections for an element with raw detections,
   on the non-class-aware path without required objects *)
C17_Witness ==
    /\ pc = "returned"
    /\ ~config.class_aware
    /\ config.required_objects = NoRequiredObjects
    /\ Len(returned) = 1
    /\ ~AllEmpty(1)
    /\ returned[1].predictions = <<>>
    /\ IsAbsent(returned[1])

(* C18: presence on the class-aware path when the count checks pass. An integer
   required_objects is compared against the number of merged detections of all
   classes; when object_present is True the keys of presence_confidence are exactly
   the class names that have a merged detection, each with the max / min / mean of the
   confidences of the merged detections of that class. *)
C18_PerClassConfidence ==
    config.class_aware =>
        \A i \in 1..Len(results) :
            /\ config.required_objects.type = "int" =>
                   (results[i].object_present <=>
                        /\ Len(results[i].predictions) > 0
                        /\ Len(results[i].predictions) >= config.required_objects.value)
            /\ results[i].object_present =>
                   /\ Len(results[i].predictions) > 0
                   /\ DOMAIN results[i].presence_confidence = ClassesOf(results[i])
                   /\ \A c \in ClassesOf(results[i]) :
                          results[i].presence_confidence[c] =
                              ExpectedAggregate(
                                  SelectSeq(results[i].predictions, LAMBDA d : d.class = c),
                                  config.presence_confidence_aggregation)
            /\ ~results[i].object_present => results[i].presence_confidence = EmptyDict

(* an integer count met by the merged detections of two classes together, neither of
   which reaches it alone, each class with its own confidence *)
C18_Witness ==
    /\ pc = "returned"
    /\ config.class_aware
    /\ config.required_objects = RequiredCount(2)
    /\ Len(returned) = 1
    /\ Len(returned[1].predictions) = 2
    /\ returned[1].object_present
    /\ DOMAIN returned[1].presence_confidence = {"cat", "dog"}
    /\ returned[1].presence_confidence["cat"] # returned[1].presence_confidence["dog"]

-----------------------------------------------------------------------------
(* Vocabulary of the merging properties: the group of the last attempt, when it was
   accepted, and the merged detection appended for it *)

GroupAccepted == CurrentAttempt /\ attempt.outcome = "accepted"

AttemptGroup == attempt.detections_to_merge

AttemptMerged == consensus_detections[Len(consensus_detections)]

(* the first member of the group, in member order, that no member beats *)
FirstUnbeaten(Beats(_, _)) ==
    CHOOSE i \in 1..Len(AttemptGroup) :
        /\ \A j \in 1..Len(AttemptGroup) : ~Beats(AttemptGroup[j], AttemptGroup[i])
        /\ \A j \in 1..(i - 1) : \E k \in 1..Len(AttemptGroup) :
               Beats(AttemptGroup[k], AttemptGroup[j])

MembersOfClass(c) == Cardinality({i \in 1..Len(AttemptGroup) : AttemptGroup[i].class = c})

MoreVotes(a, b) == MembersOfClass(a.class) > MembersOfClass(b.class)

MoreConfident(a, b) == RatLess(b.confidence, a.confidence)

LessConfident(a, b) == RatLess(a.confidence, b.confidence)

Area(d) == d.width * d.height

Larger(a, b) == Area(a) > Area(b)

Smaller(a, b) == Area(a) < Area(b)

BoxOf(d) == <<d.x, d.y, d.width, d.height>>

(* C19: class selection. In member order (the seed, then the matches by ascending source
   index) AVERAGE picks the class held by the most members, the first encountered of
   the classes that tie; MAX picks the class of the first member of the highest
   confidence; MIN the class of the first member of the lowest confidence; the merged
   class_id is the class_id of a member that carries the chosen class. *)
C19_ClassSelection ==
    GroupAccepted =>
        LET mode == config.detections_merge_confidence_aggregation
            chosen == CASE mode = AVERAGE -> AttemptGroup[FirstUnbeaten(MoreVotes)]
                        [] mode = MAX -> AttemptGroup[FirstUnbeaten(MoreConfident)]
                        [] mode = MIN -> AttemptGroup[FirstUnbeaten(LessConfident)]
        IN  /\ AttemptGroup[1].detection_id = attempt.detection_id
            /\ \A m \in 2..(Len(AttemptGroup) - 1) :
                   AttemptGroup[m].detection_id[1] < AttemptGroup[m + 1].detection_id[1]
            /\ AttemptMerged.class = chosen.class
            /\ AttemptMerged.class_id = chosen.class_id
            /\ \E m \in 1..Len(AttemptGroup) :
                   /\ AttemptGroup[m].class = AttemptMerged.class
                   /\ AttemptGroup[m].class_id = AttemptMerged.class_id

(* a group of three members in which the two matches outvote the class of the seed *)
C19_Witness ==
    /\ GroupAccepted
    /\ config.detections_merge_confidence_aggregation = AVERAGE
    /\ Len(AttemptGroup) = 3
    /\ AttemptGroup[2].class = AttemptGroup[3].class
    /\ AttemptGroup[1].class # AttemptGroup[2].class
    /\ AttemptMerged.class = AttemptGroup[2].class
    /\ AttemptMerged.class_id = AttemptGroup[2].class_id

(* C20: box aggregation MAX / MIN selects a whole member box. The merged box equals, in
   all four coordinates, the box of the member of the largest (MAX) or smallest (MIN)
   area, the first such member in member order; it is never put together from the
   coordinates of different members. *)
C20_WholeBoxSelection ==
    (GroupAccepted /\ config.detections_merge_coordinates_aggregation \in {MAX, MIN}) =>
        LET chosen == IF config.detections_merge_coordinates_aggregation = MAX
                      THEN AttemptGroup[FirstUnbeaten(Larger)]
                      ELSE AttemptGroup[FirstUnbeaten(Smaller)]
        IN  /\ BoxOf(AttemptMerged) = BoxOf(chosen)
            /\ \E m \in 1..Len(AttemptGroup) : BoxOf(AttemptMerged) = BoxOf(AttemptGroup[m])

(* two members of equal area and different boxes under MAX: the first member's box is
   the merged box, where the largest of each coordinate would be no member's box *)
C20_Witness ==
    /\ GroupAccepted
    /\ config.detections_merge_coordinates_aggregation = MAX
    /\ Len(AttemptGroup) = 2
    /\ Area(AttemptGroup[1]) = Area(AttemptGroup[2])
    /\ BoxOf(AttemptGroup[1]) # BoxOf(AttemptGroup[2])
    /\ BoxOf(AttemptMerged) = BoxOf(AttemptGroup[1])

-----------------------------------------------------------------------------
(* Vocabulary of the box average: the total of one coordinate over the members *)

CoordinateTotal(field) ==
    SumSeq([m \in 1..Len(AttemptGroup) |-> AttemptGroup[m][field]])

BoxFields == {"x", "y", "width", "height"}

(* C21: box aggregation AVERAGE. As the specification words it, the merged box is the
   coordinate-wise arithmetic mean of the member boxes: each merged coordinate times
   the number of members equals the total of that coordinate over the members (for
   two members 2 * c = c1 + c2). get_average_bounding_box applies round() to every
   mean, so a mean that is not an integer is not returned and the statement fails. *)
C21_BoxIsCoordinateMean ==
    (GroupAccepted /\ config.detections_merge_coordinates_aggregation = AVERAGE) =>
        \A field \in BoxFields :
            Len(AttemptGroup) * AttemptMerged[field] = CoordinateTotal(field)

-----------------------------------------------------------------------------
(* Vocabulary of the consumption properties *)

(* the loop of line 383 has visited every detection of the element *)
MatcherFinished == pc = "for_detection" /\ cursor > Len(enumerated)

(* the ids of the members of all merged detections of the element, and their number
   counted group by group *)
AcceptedMemberIds ==
    UNION {MemberIds(consensus_detections[j]) : j \in 1..Len(consensus_detections)}

AcceptedGroupSizes ==
    SumSeq([j \in 1..Len(consensus_detections) |-> Len(Members(consensus_detections[j]))])

(* every source holds one detection, all of one class and of pairwise IoU above the
   threshold, and as many votes are required as there are sources *)
Unanimous ==
    /\ config.required_votes = Len(element_predictions)
    /\ \A s \in 1..Len(element_predictions) : Len(element_predictions[s]) = 1
    /\ \A s, t \in 1..Len(element_predictions) :
           /\ element_predictions[s][1].class = element_predictions[t][1].class
           /\ s # t => RatLess(config.iou_threshold,
                               calculate_iou(element_predictions[s][1],
                                             element_predictions[t][1]))

UnanimousDetections == [s \in 1..Len(element_predictions) |-> element_predictions[s][1]]

UnanimousConfidence ==
    ExpectedAggregate(UnanimousDetections, config.detections_merge_confidence_aggregation)

ConsumptionIsAcceptedMembers ==
    MatcherFinished =>
        /\ detections_already_considered = AcceptedMemberIds
        /\ Cardinality(detections_already_considered) = AcceptedGroupSizes

(* C22 as the specification words it: when the matcher finishes an element the
   consumption set is the union of the member ids of the accepted groups, and N sources
   of one detection each, of one class and pairwise IoU above the threshold, with
   required_votes = N, always yield one merged detection and a consumption set of
   those N ids. The second half fails when the merged confidence is below the
   confidence threshold: nothing is output then and nothing consumed. *)
C22_UnanimousAlwaysMerges ==
    /\ ConsumptionIsAcceptedMembers
    /\ (MatcherFinished /\ Unanimous) =>
           /\ Len(consensus_detections) = 1
           /\ detections_already_considered = IdsOf(UnanimousDetections)

(* C22: consumption is the accepted membership. When the matcher finishes an element
   the consumption set is exactly the union of the member ids (seed and matches) of the
   accepted groups and its size is the sum of the groups' sizes; N sources of one
   detection each, of one class and pairwise IoU above the threshold, with
   required_votes = N, yield exactly one merged detection of those N members and a
   consumption set of those N ids when the merged confidence is not below the
   confidence threshold, and no merged detection and an empty consumption set when
   it is. *)
C22_ConsumptionIsAcceptedMembers ==
    /\ ConsumptionIsAcceptedMembers
    /\ (MatcherFinished /\ Unanimous) =>
           IF RatLess(UnanimousConfidence, config.confidence)
           THEN /\ consensus_detections = <<>>
                /\ detections_already_considered = {}
           ELSE /\ Len(consensus_detections) = 1
                /\ MemberIds(consensus_detections[1]) = IdsOf(UnanimousDetections)
                /\ detections_already_considered = IdsOf(UnanimousDetections)

(* every source of the call holds one detection, the votes of all of them are required,
   and the one group they form was accepted and all its members consumed *)
C22_Witness ==
    /\ MatcherFinished
    /\ Unanimous
    /\ Len(element_predictions) = MaxSources
    /\ Len(consensus_detections) = 1
    /\ Cardinality(detections_already_considered) = MaxSources

-----------------------------------------------------------------------------
(* The call as a function of its arguments. run_locally(predictions, image_metadata,
   config, invocation) is what an invocation returns or raises; uuid4() of that
   invocation yields <<invocation, batch index, n>>, identifiers no other invocation
   and no raw detection carries. members lists, per merged detection, the ids of the
   detections it was merged from. *)

(* the loop of lines 383-399 over the detections still to visit *)
RECURSIVE matcher_loop(_, _, _, _, _, _, _)
matcher_loop(to_visit, preds, cfg, considered, consensus, members, fresh) ==
    IF to_visit = <<>> THEN [consensus_detections |-> consensus, members |-> members]
    ELSE LET uuid == <<fresh[1], fresh[2], fresh[3] + 1>>
             update == get_consensus_for_single_detection(
                           Head(to_visit)[2], Head(to_visit)[1], preds, cfg.iou_threshold,
                           cfg.class_aware, cfg.required_votes, cfg.confidence,
                           cfg.detections_merge_confidence_aggregation,
                           cfg.detections_merge_coordinates_aggregation, considered, uuid)
         IN  matcher_loop(Tail(to_visit), preds, cfg,
                          update.detections_already_considered,
                          consensus \o update.consensus_detections,
                          IF update.outcome = "accepted"
                          THEN Append(members, IdsOf(update.detections_to_merge))
                          ELSE members,
                          IF update.outcome \in {"below_confidence", "accepted"}
                          THEN uuid ELSE fresh)

(* lines 360-414 *)
resolve_batch_consensus(preds, cfg, fresh) ==
    IF does_not_detected_objects_in_any_source(preds)
    THEN [raises |-> FALSE, error |-> "", parent_id |-> "undefined",
          object_present |-> FALSE, presence_confidence |-> EmptyDict,
          consensus_detections |-> <<>>, members |-> <<>>]
    ELSE IF parent_ids_mismatch(preds)
    THEN [raises |-> TRUE, error |-> "Missmatch in predictions"]
    ELSE IF encountered_parent_ids(preds) = {}
    THEN [raises |-> TRUE, error |-> "list index out of range"]
    ELSE LET filtered == filter_predictions(preds, cfg.classes_to_consider)
             matched == matcher_loop(enumerate_detections(filtered, 0), filtered, cfg,
                                     {}, <<>>, <<>>, fresh)
             presence == check_objects_presence_in_consensus_predictions(
                             matched.consensus_detections, cfg.class_aware,
                             cfg.presence_confidence_aggregation, cfg.required_objects)
         IN  IF presence.raises
             THEN [raises |-> TRUE, error |-> "aggregation of an empty list"]
             ELSE [raises |-> FALSE, error |-> "",
                   parent_id |-> get_parent_id_of_predictions_from_different_sources(preds),
                   object_present |-> presence.object_present,
                   presence_confidence |-> presence.presence_confidence,
                   consensus_detections |-> matched.consensus_detections,
                   members |-> matched.members]

(* the loop of lines 213-241 from batch index i on *)
RECURSIVE run_locally_loop(_, _, _, _, _)
run_locally_loop(preds, metadata, cfg, i, invocation) ==
    IF i > get_predictions_batch_sizes(preds)[1]
    THEN [raises |-> FALSE, error |-> "", results |-> <<>>, members |-> <<>>]
    ELSE LET element == resolve_batch_consensus([s \in 1..Len(preds) |-> preds[s][i]],
                                                cfg, <<invocation, i, 0>>)
             rest == run_locally_loop(preds, metadata, cfg, i + 1, invocation)
         IN  IF element.raises
             THEN [raises |-> TRUE, error |-> element.error,
                   results |-> <<>>, members |-> <<>>]
             ELSE IF rest.raises THEN rest
             ELSE [raises |-> FALSE,
                   error |-> "",
                   results |-> <<[predictions |-> element.consensus_detections,
                                  parent_id |-> element.parent_id,
                                  object_present |-> element.object_present,
                                  presence_confidence |-> element.presence_confidence,
                                  image |-> metadata[i],
                                  prediction_type |-> "object-detection"]>>
                              \o rest.results,
                   members |-> <<element.members>> \o rest.members]

(* lines 190-242 *)
run_locally(preds, metadata, cfg, invocation) ==
    IF Len(preds) < 1
    THEN [raises |-> TRUE, results |-> <<>>, members |-> <<>>,
          error |-> "Consensus step requires at least one source of predictions."]
    ELSE IF ~all_batch_sizes_equal(get_predictions_batch_sizes(preds))
    THEN [raises |-> TRUE, results |-> <<>>, members |-> <<>>,
          error |-> "Detected missmatch of input dimensions."]
    ELSE run_locally_loop(preds, metadata, cfg, 1, invocation)

-----------------------------------------------------------------------------
(* Vocabulary of the properties that compare two invocations *)

WithoutDetectionIds(detections) ==
    [k \in 1..Len(detections) |-> [detections[k] EXCEPT !.detection_id = <<>>]]

(* every field of a record but the fresh identifiers of its merged detections *)
WithoutFreshIds(record) ==
    [record EXCEPT !.predictions = WithoutDetectionIds(record.predictions)]

(* the member sets of the merged detections of a record of this invocation *)
MemberSets(record) ==
    [k \in 1..Len(record.predictions) |-> MemberIds(record.predictions[k])]

SecondInvocation == run_locally(predictions, image_metadata, config, 1)

(* C23: determinism. A second invocation with the same sources, metadata and
   configuration fails exactly when the first fails, with the same error; when both
   return, the result lists have the same length and agree record by record in
   parent_id, object_present, presence_confidence, image and in the number, order,
   class, class_id, confidence, box and member set of the merged detections: all that
   may differ is the merged detections' freshly generated detection_id. *)
C23_Determinism ==
    /\ pc = "raised" =>
           /\ SecondInvocation.raises
           /\ SecondInvocation.error = error
    /\ pc = "returned" =>
           /\ ~SecondInvocation.raises
           /\ Len(SecondInvocation.results) = Len(returned)
           /\ \A i \in 1..Len(returned) :
                  /\ WithoutFreshIds(SecondInvocation.results[i]) =
                         WithoutFreshIds(returned[i])
                  /\ SecondInvocation.members[i] = MemberSets(returned[i])

(* the call returned a merged detection, which the second invocation returns under
   another identifier *)
C23_Witness ==
    /\ pc = "returned"
    /\ Len(returned) >= 1
    /\ Len(returned[1].predictions) >= 2
    /\ Len(Members(returned[1].predictions[1])) >= 2
    /\ SecondInvocation.results[1].predictions[1].detection_id #
           returned[1].predictions[1].detection_id
    /\ WithoutFreshIds(SecondInvocation.results[1]) = WithoutFreshIds(returned[1])

(* the call in which every batch element but element i holds no detection *)
OnlyElement(i) ==
    [s \in 1..Len(predictions) |->
        [b \in 1..Len(predictions[s]) |-> IF b = i THEN predictions[s][b] ELSE <<>>]]

InvocationOfOnly(i) == run_locally(OnlyElement(i), image_metadata, config, 1)

(* the call of the detections of element i and of image_metadata[i] alone *)
InvocationOfElementAlone(i) ==
    run_locally([s \in 1..Len(predictions) |-> <<predictions[s][i]>>],
                <<image_metadata[i]>>, config, 1)

(* a record has just been appended to the results: the record of index Len(results) *)
RecordProduced == pc = "for_batch" /\ Len(results) >= 1

(* C24: batch elements are independent. The record produced for batch index i is the
   record index i gets in the call whose other elements hold no detection, and the
   record of the call made of element i and image_metadata[i] alone, apart from the
   fresh detection_ids: it depends on nothing at another index, and its merged
   detections are merged from detections of index i only. *)
C24_BatchIndependence ==
    RecordProduced =>
        LET i == Len(results)
        IN  /\ ~InvocationOfOnly(i).raises
            /\ WithoutFreshIds(InvocationOfOnly(i).results[i]) = WithoutFreshIds(results[i])
            /\ InvocationOfOnly(i).members[i] = MemberSets(results[i])
            /\ ~InvocationOfElementAlone(i).raises
            /\ WithoutFreshIds(InvocationOfElementAlone(i).results[1]) =
                   WithoutFreshIds(results[i])
            /\ \A k \in 1..Len(results[i].predictions) :
                   \A id \in MemberIds(results[i].predictions[k]) : id[2] = i

(* two batch elements in which both votes are found: the record of the second has the
   one merged detection of its own element *)
C24_Witness ==
    /\ RecordProduced
    /\ config.required_votes = 2
    /\ Len(results) = 2
    /\ Len(results[1].predictions) = 1
    /\ Len(results[2].predictions) = 1
    /\ \A id \in MemberIds(results[2].predictions[1]) : id[2] = 2
    /\ WithoutFreshIds(InvocationOfOnly(2).results[2]) = WithoutFreshIds(results[2])
    /\ InvocationOfOnly(2).results[1].predictions = <<>>

-----------------------------------------------------------------------------
(* Vocabulary of the class filter *)

Filtering == config.classes_to_consider.type = "list"

Listed(class_name) == class_name \in Range(config.classes_to_consider.value)

(* the element is past the filter of lines 377-380 *)
Filtered == pc = "for_detection"

(* C25: class filter. With a list as classes_to_consider the detections a source is
   left with are exactly its detections of a listed class, each unchanged and in their
   original relative order; no detection of another class is a seed or a member of a
   group, and every merged detection has a listed class. With None as
   classes_to_consider every source keeps its whole list. *)
C25_ClassFilter ==
    /\ (Filtered /\ ~Filtering) => element_predictions = RawElement(batch_index)
    /\ (Filtered /\ Filtering) =>
           \A s \in 1..Len(element_predictions) :
               LET raw == RawElement(batch_index)[s]
                   kept == element_predictions[s]
               IN  /\ IdsOf(kept) = {raw[k].detection_id : k \in {j \in 1..Len(raw) : Listed(raw[j].class)}}
                   /\ \A k \in 1..Len(kept) : kept[k] = raw[kept[k].detection_id[3]]
                   /\ \A k \in 1..(Len(kept) - 1) :
                          kept[k].detection_id[3] < kept[k + 1].detection_id[3]
    /\ (GroupFormed /\ Filtering) =>
           \A m \in 1..Len(attempt.detections_to_merge) :
               Listed(attempt.detections_to_merge[m].class)
    /\ Filtering =>
           \A list \in OutputLists : \A j \in 1..Len(list) :
               /\ Listed(list[j].class)
               /\ \A m \in 1..Len(Members(list[j])) : Listed(Members(list[j])[m].class)

(* a source of three detections loses the second one to the filter, keeps the first and
   the third in this order, and a detection was merged from what is left *)
C25_Witness ==
    /\ Filtered
    /\ Filtering
    /\ \E s \in 1..Len(element_predictions) :
           /\ Len(RawElement(batch_index)[s]) = 3
           /\ Len(element_predictions[s]) = 2
           /\ element_predictions[s][1].detection_id[3] = 1
           /\ element_predictions[s][2].detection_id[3] = 3
    /\ consensus_detections # <<>>

-----------------------------------------------------------------------------
(* Vocabulary of the geometry properties *)

(* the detections of the element the matcher compares with one another *)
ElementDetections ==
    UNION {Range(element_predictions[s]) : s \in 1..Len(element_predictions)}

(* the area the corners of two boxes have in common *)
Overlap(a, b) ==
    LET left == Max2(detection_to_xyxy(a)[1], detection_to_xyxy(b)[1])
        top == Max2(detection_to_xyxy(a)[2], detection_to_xyxy(b)[2])
        right == Min2(detection_to_xyxy(a)[3], detection_to_xyxy(b)[3])
        bottom == Min2(detection_to_xyxy(a)[4], detection_to_xyxy(b)[4])
    IN  IF right > left /\ bottom > top THEN (right - left) * (bottom - top) ELSE 0

(* C26: IoU on boxes without area. The IoU of two boxes whose union area is zero is 0
   and is computed without fault; the group of a seed without area holds no match
   without area, whatever iou_threshold of [0, 1] is set; and for two boxes of
   positive area the IoU is the same in both orders of the arguments and lies
   between 0 and 1. *)
C26_IoUOfEmptyUnion ==
    /\ Filtered =>
           \A a, b \in ElementDetections :
               /\ Area(a) + Area(b) - Overlap(a, b) = 0 => calculate_iou(a, b) = <<0, 1>>
               /\ (Area(a) > 0 /\ Area(b) > 0) =>
                      /\ calculate_iou(a, b) = calculate_iou(b, a)
                      /\ RatLeq(<<0, 1>>, calculate_iou(a, b))
                      /\ RatLeq(calculate_iou(a, b), <<1, 1>>)
    /\ (GroupFormed /\ Area(AttemptSeed) = 0) =>
           \A m \in 2..Len(attempt.detections_to_merge) :
               Area(attempt.detections_to_merge[m]) > 0

(* under iou_threshold 0 a seed without area faces the same box in another source and
   is left without match *)
C26_Witness ==
    /\ GroupFormed
    /\ config.iou_threshold = <<0, 1>>
    /\ Area(AttemptSeed) = 0
    /\ \E s \in OtherSources : \E k \in 1..Len(element_predictions[s]) :
           /\ BoxOf(element_predictions[s][k]) = BoxOf(AttemptSeed)
           /\ element_predictions[s][k].detection_id \notin attempt.considered_before
           /\ calculate_iou(AttemptSeed, element_predictions[s][k]) = <<0, 1>>
    /\ Len(attempt.detections_to_merge) = 1

-----------------------------------------------------------------------------
(* Vocabulary of the processing order *)

PostFilterIds ==
    UNION {IdsOf(element_predictions[s]) : s \in 1..Len(element_predictions)}

(* ascending source index, then ascending detection index within the source *)
Before(a, b) == a[1] < b[1] \/ (a[1] = b[1] /\ a[3] < b[3])

(* the n-th post-filter detection in that order *)
NthToVisit(n) ==
    CHOOSE id \in PostFilterIds : Cardinality({e \in PostFilterIds : Before(e, id)}) = n - 1

Visiting == pc = "for_detection"

(* one iteration of the loop over the seeds *)
VisitsNextSeed ==
    (Visiting /\ cursor' # cursor) =>
        /\ cursor' = cursor + 1
        /\ cursor <= Cardinality(PostFilterIds)
        /\ attempt'.detection_id = NthToVisit(cursor)
        /\ attempt'.detection_id \in detections_already_considered =>
               /\ attempt'.outcome = "already_considered"
               /\ attempt'.detections_to_merge = <<>>
               /\ UNCHANGED <<detections_already_considered, consensus_detections>>
        /\ attempt'.detection_id \notin detections_already_considered =>
               /\ attempt'.outcome # "already_considered"
               /\ attempt'.detections_to_merge[1].detection_id = attempt'.detection_id

(* the seeds of the merged detections of every output list ascend *)
OutputInVisitingOrder ==
    \A list \in OutputLists : \A j, k \in 1..Len(list) :
        j < k => Before(Members(list[j])[1].detection_id, Members(list[k])[1].detection_id)

VisitsWithinBounds == Visiting => (1 <= cursor /\ cursor <= Cardinality(PostFilterIds) + 1)

(* C27: processing order. Within an element the loop visits the post-filter detections
   as seeds one per iteration, the n-th iteration the n-th detection in ascending source
   index and then ascending detection index, so each exactly once; a seed found in the
   consumption set is skipped without matching and without effect; the merged
   detections stand in the output in the visiting order of their seeds; and the loop,
   once entered, reaches its end after the last detection and is left. *)
C27_ProcessingOrder ==
    /\ [][VisitsNextSeed]_vars
    /\ [](OutputInVisitingOrder /\ VisitsWithinBounds)
    /\ (Visiting ~> MatcherFinished)
    /\ (MatcherFinished ~> ~Visiting)

(* three detections were visited in two sources: the first two were merged, each into
   a detection of its own, and the third, consumed by the first, was skipped *)
C27_Witness ==
    /\ MatcherFinished
    /\ CurrentAttempt
    /\ cursor = 4
    /\ attempt.outcome = "already_considered"
    /\ attempt.detection_id[1] = 2
    /\ Len(consensus_detections) = 2
    /\ attempt.detection_id \in MemberIds(consensus_detections[1])

-----------------------------------------------------------------------------
(* C28: an attempt rejected for lack of votes has no effect. The consumption set and
   the output list are what they were before the attempt; neither the seed nor any of
   its partial matches is in the consumption set, so each of them is still a candidate
   of later seeds; and a detection that lacked votes as a seed enters a later group
   only as a match of a seed from a source of higher index. *)
C28_LackOfVotesHasNoEffect ==
    /\ (CurrentAttempt /\ attempt.outcome = "lacks_votes") =>
           /\ detections_already_considered = attempt.considered_before
           /\ consensus_detections = attempt.output_before
           /\ IdsOf(attempt.detections_to_merge) \cap detections_already_considered = {}
    /\ GroupAccepted =>
           \A m \in 1..Len(AttemptGroup) :
               AttemptGroup[m].detection_id \in attempt.lacked_votes =>
                   /\ m >= 2
                   /\ AttemptGroup[m].detection_id[1] < attempt.source_id

(* of three votes required the seed of the first source found one match only and lacked
   votes; the seed of the second source found that detection and one of the third
   source, and the failed seed is a member of its merged detection *)
C28_Witness ==
    /\ GroupAccepted
    /\ config.required_votes = 3
    /\ attempt.source_id = 2
    /\ Len(AttemptGroup) = 3
    /\ AttemptGroup[2].detection_id[1] = 1
    /\ AttemptGroup[2].detection_id \in attempt.lacked_votes
    /\ AttemptGroup[2].detection_id \in MemberIds(AttemptMerged)
    /\ AttemptGroup[2].detection_id \in detections_already_considered

-----------------------------------------------------------------------------
(* the detection the last attempt visited as its seed *)
VisitedSeed ==
    CHOOSE d \in ElementDetections : d.detection_id = attempt.detection_id

(* C29: class-aware grouping. With class_aware = True every member of an accepted
   group has the class of the seed, and the merged detection has the seed's class and
   class_id whichever of AVERAGE, MAX and MIN selects the class. *)
C29_ClassAwareGroups ==
    (GroupAccepted /\ config.class_aware) =>
        /\ \A m \in 1..Len(AttemptGroup) : AttemptGroup[m].class = VisitedSeed.class
        /\ \A m \in 1..Len(Members(AttemptMerged)) :
               Members(AttemptMerged)[m].class = VisitedSeed.class
        /\ AttemptMerged.class = VisitedSeed.class
        /\ AttemptMerged.class_id = VisitedSeed.class_id

(* a seed matched a detection of its class while a detection of another class in a
   third source overlapped it above the threshold and stayed out of the group; the
   class is selected by the highest confidence *)
C29_Witness ==
    /\ GroupAccepted
    /\ config.class_aware
    /\ config.detections_merge_confidence_aggregation = MAX
    /\ Len(AttemptGroup) = 2
    /\ AttemptMerged.class = VisitedSeed.class
    /\ \E d \in ElementDetections :
           /\ d.class # VisitedSeed.class
           /\ d.detection_id[1] # attempt.source_id
           /\ d.detection_id \notin attempt.considered_before
           /\ RatLess(config.iou_threshold, calculate_iou(VisitedSeed, d))
           /\ d.detection_id \notin MemberIds(AttemptMerged)

-----------------------------------------------------------------------------
(* the number of detections of batch element i that pass the class filter *)
PostFilterCount(i) ==
    SumSeq([s \in 1..Len(predictions) |->
               Cardinality({k \in 1..Len(predictions[s][i]) :
                               Filtering => Listed(predictions[s][i][k].class)})])

(* C30: output size bound. For every element the number of merged detections times
   required_votes is at most the number of post-filter detections of all sources: every
   merged detection has at least required_votes members, all of them distinct
   detections of the element, and the members of all of them are counted once. *)
C30_OutputSizeBound ==
    /\ Visiting =>
           /\ Len(consensus_detections) * config.required_votes <= PostFilterCount(batch_index)
           /\ \A j \in 1..Len(consensus_detections) :
                  /\ Cardinality(MemberIds(consensus_detections[j])) >= config.required_votes
                  /\ MemberIds(consensus_detections[j]) \subseteq PostFilterIds
    /\ \A i \in 1..Len(results) :
           Len(results[i].predictions) * config.required_votes <= PostFilterCount(i)

(* two votes are required and the two detections left by the filter gave one merged
   detection: the bound is met with equality *)
C30_Witness ==
    /\ MatcherFinished
    /\ config.required_votes = 2
    /\ Len(consensus_detections) = 1
    /\ PostFilterCount(batch_index) = 2
    /\ Cardinality(PostFilterIds) = 2

====
